---- MODULE Spec2Model ----
(***************************************************************************)
(* State-machine model of the NewTube backend (src/src/bin/backend.rs):    *)
(* the version-gated ApiCache in front of the SQLite metadata store, and   *)
(* the DownloadManager that supervises download_channel subprocesses.      *)
(*                                                                         *)
(* A row of the store is abstracted to <<videoid, tag>> where tag names    *)
(* the commit that wrote it (1 for rows present at start-up, v + 1 for the *)
(* commit that moved the change counter to v), so two commits never write  *)
(* equal content and a stale row is always told from a fresh one.          *)
(* A Vec of rows is abstracted to the set of its rows.                     *)
(***************************************************************************)
EXTENDS Integers, Sequences, FiniteSets, TLC

\* Number of commits made to the metadata store while the backend runs.
MaxVersion == 1

\* Number of requests served through AppState while the backend runs.
MaxRequests == 2

\* Video ids requested and written (the ids the unit tests use).
Ids == {"alpha", "beta"}

\* MediaCategory::Video / MediaCategory::Short, named by their table.
Categories == {"videos", "shorts"}

\* Request tasks that may call into AppState.
Readers == {"r1", "r2"}

\* Option<T>
None == <<>>
Some(x) == <<x>>

VARIABLES
    store,            \* the SQLite tables: table -> (videoid -> tag, 0 = no row)
    dbVersion,        \* PRAGMA data_version as the reader connection sees it
    storeLog,         \* history: storeLog[v + 1] is the store at data_version v
    cache,            \* ApiCache without last_db_version
    last_db_version,  \* ApiCache::last_db_version
    rpc,              \* per request task: the await/lock point it stands at
    rop,              \* per request task: the AppState method and arguments
    rver,             \* per request task: `version` local of ensure_fresh_cache
    rgot,             \* per request task: rows fetched from the store so far
    raux,             \* history: what the request saw when it was issued
    ret,              \* history: the last value each request task returned
    epochRes,         \* history: first result per operation since the last commit
    listed,           \* history: lists returned on a miss since the last commit
    nreq,             \* history: number of requests issued so far
    downloader,       \* DownloadManagerInner::downloader is Some
    binary,           \* a download_channel executable is where the lookup looks
    fsWritable,       \* whether files can be written under <media_root>/downloads
    counter,          \* DownloadManagerInner::counter
    jobs,             \* DownloadManagerInner::jobs: job id -> DownloadJob
    files,            \* progress files: path -> Option<ProgressReport>
    call,             \* per HTTP caller: position in start_*_download
    task,             \* per job number: position of the task tokio::spawn started
    dl,               \* per job number: the download_channel subprocess
    poll,             \* the status poller: position in get_status
    polled,           \* history: the answer get_status returns in this step
    handed,           \* history: counter values next_job_id handed out, in order
    returned,         \* history: job ids returned to callers, in order
    dir,              \* downloads directory of one job: file name -> inode, 0 if absent
    inodes,           \* inode -> the chunks the file holds
    nextIno,          \* the next inode the file system creates
    stage,            \* where the job's orchestrator and downloader stand
    pw,               \* per writer: position in write_json_atomic / ProgressWriter::write
    rd,               \* the reader: position in read_progress_report
    seen,             \* history: what the last read_progress_report read and parsed
    input,            \* the arguments a function or handler is called with
    output            \* what it has computed and answered so far

cacheVars == <<store, dbVersion, storeLog, cache, last_db_version,
               rpc, rop, rver, rgot, raux, ret, epochRes, listed, nreq>>

jobVars == <<downloader, binary, fsWritable, counter, jobs, files, call, task, dl,
             poll, polled, handed, returned>>

fileVars == <<dir, inodes, nextIno, stage, pw, rd, seen>>

fnVars == <<input, output>>

auxVars == <<fileVars, fnVars>>

vars == <<cacheVars, jobVars, auxVars>>

Tables == {"videos", "shorts", "comments", "subtitles"}

EmptyStore == [t \in Tables |-> [i \in Ids |-> 0]]

\* The library of the unit test bootstrap_caches_payload: video alpha with
\* subtitles and comments, short beta.
SeedStore ==
    [EmptyStore EXCEPT !.videos["alpha"] = 1, !.shorts["beta"] = 1,
                       !.subtitles["alpha"] = 1, !.comments["alpha"] = 1]

\* Contents of metadata.db when the backend starts.
InitialStores == {EmptyStore, SeedStore}

\* ---------------------------------------------------------------------------
\* MetadataReader queries (src/src/metadata.rs)
\* ---------------------------------------------------------------------------

fetch_videos_from(s, table) ==
    {<<i, s[table][i]>> : i \in {j \in Ids : s[table][j] # 0}}

fetch_single(s, table, videoid) ==
    IF s[table][videoid] # 0 THEN Some(<<videoid, s[table][videoid]>>) ELSE None

reader_get_subtitles(s, videoid) ==
    IF s.subtitles[videoid] # 0
    THEN Some(<<videoid, s.subtitles[videoid]>>) ELSE None

reader_list_subtitles(s) ==
    {<<i, s.subtitles[i]>> : i \in {j \in Ids : s.subtitles[j] # 0}}

\* Comments are returned only for ids present in videos or shorts.
reader_get_comments(s, videoid) ==
    IF s.comments[videoid] # 0
       /\ (s.videos[videoid] # 0 \/ s.shorts[videoid] # 0)
    THEN {<<videoid, s.comments[videoid]>>} ELSE {}

reader_list_all_comments(s) ==
    UNION {reader_get_comments(s, i) : i \in Ids}

\* ---------------------------------------------------------------------------
\* ApiCache
\* ---------------------------------------------------------------------------

EmptyMap == [i \in Ids |-> None]

ApiCacheNew ==
    [videos |-> None, shorts |-> None,
     video_details |-> EmptyMap, short_details |-> EmptyMap,
     comments |-> EmptyMap, subtitles |-> EmptyMap,
     bootstrap |-> None]

media_details(category) ==
    IF category = "videos" THEN "video_details" ELSE "short_details"

\* A clear() that forgets the comment map.
ApiCacheClearKeepsComments(c) ==
    [c EXCEPT !.videos = None, !.shorts = None,
              !.video_details = EmptyMap, !.short_details = EmptyMap,
              !.subtitles = EmptyMap, !.bootstrap = None]

ApiCacheClear(c) ==
    [c EXCEPT !.videos = None, !.shorts = None,
              !.video_details = EmptyMap, !.short_details = EmptyMap,
              !.comments = EmptyMap, !.subtitles = EmptyMap,
              !.bootstrap = None]

\* ---------------------------------------------------------------------------
\* Request-task bookkeeping
\* ---------------------------------------------------------------------------

NoOp == [kind |-> "none", cat |-> "videos", id |-> "alpha"]

Ops ==
    {[kind |-> "bootstrap", cat |-> "videos", id |-> "alpha"]}
    \cup {[kind |-> "list", cat |-> c, id |-> "alpha"] : c \in Categories}
    \cup {[kind |-> "media", cat |-> c, id |-> i] : c \in Categories, i \in Ids}
    \cup {[kind |-> k, cat |-> "videos", id |-> i] :
              k \in {"comments", "subtitles"}, i \in Ids}

\* History kept per request: the counter value when it was issued; whether
\* its freshness check saw a value other than the recorded one; what its own
\* slot held before that check; whether another operation's slot was filled
\* then; the row a list returned for its id since the last commit; whether
\* the same task's previous request was this operation and found nothing.
NoAux == [issued |-> 0, changed |-> FALSE, old |-> None, dropped |-> FALSE,
          listedRec |-> None, prevNone |-> FALSE]

\* What the store answers to an operation in store state s.
StoreAnswer(o, s) ==
    CASE o.kind = "bootstrap" ->
            [videos |-> fetch_videos_from(s, "videos"),
             shorts |-> fetch_videos_from(s, "shorts"),
             subtitles |-> reader_list_subtitles(s),
             comments |-> reader_list_all_comments(s)]
      [] o.kind = "list" -> fetch_videos_from(s, o.cat)
      [] o.kind = "media" -> fetch_single(s, o.cat, o.id)
      [] o.kind = "comments" -> reader_get_comments(s, o.id)
      [] OTHER -> reader_get_subtitles(s, o.id)

\* The cache slot an operation reads on its hit path.
CacheSlot(o, c) ==
    CASE o.kind = "bootstrap" -> c.bootstrap
      [] o.kind = "list" -> c[o.cat]
      [] o.kind = "media" -> c[media_details(o.cat)][o.id]
      [] o.kind = "comments" -> c.comments[o.id]
      [] OTHER -> c.subtitles[o.id]

Idle(r) == rpc[r] = "idle"

\* A request returns `res`; `hit` tells whether it was served from the cache.
Return(r, res, hit, c) ==
    /\ rpc' = [rpc EXCEPT ![r] = "idle"]
    /\ rop' = [rop EXCEPT ![r] = NoOp]
    /\ rver' = [rver EXCEPT ![r] = 0]
    /\ rgot' = [rgot EXCEPT ![r] = None]
    /\ raux' = [raux EXCEPT ![r] = NoAux]
    /\ ret' = [ret EXCEPT ![r] =
                  Some([op |-> rop[r], res |-> res, hit |-> hit,
                        issued |-> raux[r].issued, returned |-> dbVersion,
                        listedRec |-> raux[r].listedRec,
                        changed |-> raux[r].changed, old |-> raux[r].old,
                        prevNone |-> raux[r].prevNone,
                        after |-> IF rop[r].kind = "list"
                                  THEN c[media_details(rop[r].cat)]
                                  ELSE CacheSlot(rop[r], c)])]
    /\ epochRes' =
          IF raux[r].issued = dbVersion /\ epochRes[rop[r]] = None
          THEN [epochRes EXCEPT ![rop[r]] = Some(res)]
          ELSE epochRes

\* ---------------------------------------------------------------------------
\* The metadata store is written by another connection (download_channel).
\* ---------------------------------------------------------------------------

\* MetadataStore::upsert_video / upsert_short / upsert_subtitles /
\* replace_comments: one commit, which moves PRAGMA data_version.
StoreWrite(table, videoid) ==
    /\ dbVersion < MaxVersion
    /\ dbVersion' = dbVersion + 1
    /\ store' = [store EXCEPT ![table][videoid] = dbVersion + 2]
    /\ storeLog' = Append(storeLog, store')
    /\ epochRes' = [o \in Ops |-> None]
    /\ listed' = [c \in Categories |-> None]
    /\ UNCHANGED <<cache, last_db_version, rpc, rop, rver, rgot, raux, ret, nreq>>
    /\ UNCHANGED <<jobVars, auxVars>>

\* ---------------------------------------------------------------------------
\* AppState::ensure_fresh_cache
\* ---------------------------------------------------------------------------

\* A handler is entered with operation o and reads the change counter:
\* `let version = self.reader.data_version().await`
DataVersion(r, o) ==
    /\ Idle(r)
    /\ nreq < MaxRequests
    /\ nreq' = nreq + 1
    /\ rop' = [rop EXCEPT ![r] = o]
    /\ rver' = [rver EXCEPT ![r] = dbVersion]
    /\ rpc' = [rpc EXCEPT ![r] = "ensure_fresh"]
    /\ raux' = [raux EXCEPT ![r] =
                  [NoAux EXCEPT
                     !.issued = dbVersion,
                     !.prevNone = /\ ret[r] # None
                                  /\ ret[r][1].op = o
                                  /\ o.kind \in {"media", "subtitles"}
                                  /\ ret[r][1].res = None,
                     !.listedRec =
                        IF o.kind = "media" /\ listed[o.cat] # None
                        THEN LET recs == {x \in listed[o.cat][1] : x[1] = o.id}
                             IN IF recs = {} THEN None
                                ELSE Some(CHOOSE x \in recs : TRUE)
                        ELSE None]]
    /\ ret' = [ret EXCEPT ![r] = None]
    /\ UNCHANGED <<store, dbVersion, storeLog, cache, last_db_version,
                   rgot, epochRes, listed>>
    /\ UNCHANGED <<jobVars, auxVars>>

\* A comparison that only notices a counter that went backwards.
MustClearBackward(last, version) == last # None /\ version < last[1]

\* The branch of ensure_fresh_cache: clear when a previous value exists and
\* differs from the value just read.
MustClear(last, version) == last # None /\ version # last[1]

\* The guarded section: compare, clear, record.
EnsureFreshCache(r) ==
    /\ rpc[r] = "ensure_fresh"
    /\ cache' = IF MustClear(last_db_version, rver[r])
                THEN ApiCacheClear(cache) ELSE cache
    /\ last_db_version' = Some(rver[r])
    /\ rpc' = [rpc EXCEPT ![r] = "lookup"]
    /\ LET differs == last_db_version # None /\ rver[r] # last_db_version[1]
       IN raux' = [raux EXCEPT
                     ![r].changed = differs,
                     ![r].old = IF differs THEN CacheSlot(rop[r], cache) ELSE None,
                     ![r].dropped = /\ differs
                                    /\ \E o \in Ops : /\ o.kind # rop[r].kind
                                                      /\ CacheSlot(o, cache) # None]
    /\ UNCHANGED <<store, dbVersion, storeLog, rop, rver, rgot, ret,
                   epochRes, listed, nreq>>
    /\ UNCHANGED <<jobVars, auxVars>>

\* ---------------------------------------------------------------------------
\* AppState::get_bootstrap
\* ---------------------------------------------------------------------------

GetBootstrapLookup(r) ==
    /\ rpc[r] = "lookup" /\ rop[r].kind = "bootstrap"
    /\ IF cache.bootstrap # None
       THEN /\ Return(r, cache.bootstrap[1], TRUE, cache)
            /\ UNCHANGED <<store, dbVersion, storeLog, cache, last_db_version, listed, nreq>>
       ELSE /\ rpc' = [rpc EXCEPT ![r] = "list_videos"]
            /\ UNCHANGED <<store, dbVersion, storeLog, cache, last_db_version,
                           rop, rver, rgot, raux, ret, epochRes, listed, nreq>>
    /\ UNCHANGED <<jobVars, auxVars>>

\* The four store queries, each awaited in turn.
GetBootstrapQuery(r) ==
    /\ rop[r].kind = "bootstrap"
    /\ \/ /\ rpc[r] = "list_videos"
          /\ rgot' = [rgot EXCEPT ![r] = <<fetch_videos_from(store, "videos")>>]
          /\ rpc' = [rpc EXCEPT ![r] = "list_shorts"]
       \/ /\ rpc[r] = "list_shorts"
          /\ rgot' = [rgot EXCEPT ![r] = Append(@, fetch_videos_from(store, "shorts"))]
          /\ rpc' = [rpc EXCEPT ![r] = "list_subtitles"]
       \/ /\ rpc[r] = "list_subtitles"
          /\ rgot' = [rgot EXCEPT ![r] = Append(@, reader_list_subtitles(store))]
          /\ rpc' = [rpc EXCEPT ![r] = "list_all_comments"]
       \/ /\ rpc[r] = "list_all_comments"
          /\ rgot' = [rgot EXCEPT ![r] = Append(@, reader_list_all_comments(store))]
          /\ rpc' = [rpc EXCEPT ![r] = "bootstrap_write"]
    /\ UNCHANGED <<store, dbVersion, storeLog, cache, last_db_version,
                   rop, rver, raux, ret, epochRes, listed, nreq>>
    /\ UNCHANGED <<jobVars, auxVars>>

BootstrapPayload(got) ==
    [videos |-> got[1], shorts |-> got[2], subtitles |-> got[3], comments |-> got[4]]

GetBootstrapPopulate(r) ==
    /\ rpc[r] = "bootstrap_write" /\ rop[r].kind = "bootstrap"
    /\ cache' = [cache EXCEPT !.bootstrap = Some(BootstrapPayload(rgot[r]))]
    /\ Return(r, BootstrapPayload(rgot[r]), FALSE, cache')
    /\ UNCHANGED <<store, dbVersion, storeLog, last_db_version, listed, nreq>>
    /\ UNCHANGED <<jobVars, auxVars>>

\* ---------------------------------------------------------------------------
\* AppState::get_media_list
\* ---------------------------------------------------------------------------

GetMediaListLookup(r) ==
    /\ rpc[r] = "lookup" /\ rop[r].kind = "list"
    /\ IF cache[rop[r].cat] # None
       THEN /\ Return(r, cache[rop[r].cat][1], TRUE, cache)
            /\ UNCHANGED <<store, dbVersion, storeLog, cache, last_db_version, listed, nreq>>
       ELSE /\ rpc' = [rpc EXCEPT ![r] = "query"]
            /\ UNCHANGED <<store, dbVersion, storeLog, cache, last_db_version,
                           rop, rver, rgot, raux, ret, epochRes, listed, nreq>>
    /\ UNCHANGED <<jobVars, auxVars>>

GetMediaListQuery(r) ==
    /\ rpc[r] = "query" /\ rop[r].kind = "list"
    /\ rgot' = [rgot EXCEPT ![r] = Some(fetch_videos_from(store, rop[r].cat))]
    /\ rpc' = [rpc EXCEPT ![r] = "replace"]
    /\ UNCHANGED <<store, dbVersion, storeLog, cache, last_db_version,
                   rop, rver, raux, ret, epochRes, listed, nreq>>
    /\ UNCHANGED <<jobVars, auxVars>>

\* `self.cache.media_list(category).write().replace(records.clone())`
GetMediaListReplace(r) ==
    /\ rpc[r] = "replace" /\ rop[r].kind = "list"
    /\ cache' = [cache EXCEPT ![rop[r].cat] = rgot[r]]
    /\ rpc' = [rpc EXCEPT ![r] = "fill"]
    /\ UNCHANGED <<store, dbVersion, storeLog, last_db_version,
                   rop, rver, rgot, raux, ret, epochRes, listed, nreq>>
    /\ UNCHANGED <<jobVars, auxVars>>

\* A list memoized without filling the detail index.
BackFillNothing(details, records) == details

\* `for record in &records { details.insert(record.videoid.clone(), ...) }`
BackFill(details, records) ==
    [i \in Ids |->
        IF \E x \in records : x[1] = i
        THEN Some(CHOOSE x \in records : x[1] = i)
        ELSE details[i]]

GetMediaListFill(r) ==
    /\ rpc[r] = "fill" /\ rop[r].kind = "list"
    /\ cache' = [cache EXCEPT ![media_details(rop[r].cat)] = BackFill(@, rgot[r][1])]
    /\ Return(r, rgot[r][1], FALSE, cache')
    /\ listed' = IF rver[r] = dbVersion
                 THEN [listed EXCEPT ![rop[r].cat] = rgot[r]]
                 ELSE listed
    /\ UNCHANGED <<store, dbVersion, storeLog, last_db_version, nreq>>
    /\ UNCHANGED <<jobVars, auxVars>>

\* ---------------------------------------------------------------------------
\* AppState::get_media
\* ---------------------------------------------------------------------------

GetMediaLookup(r) ==
    /\ rpc[r] = "lookup" /\ rop[r].kind = "media"
    /\ IF cache[media_details(rop[r].cat)][rop[r].id] # None
       THEN /\ Return(r, cache[media_details(rop[r].cat)][rop[r].id], TRUE, cache)
            /\ UNCHANGED <<store, dbVersion, storeLog, cache, last_db_version, listed, nreq>>
       ELSE /\ rpc' = [rpc EXCEPT ![r] = "query"]
            /\ UNCHANGED <<store, dbVersion, storeLog, cache, last_db_version,
                           rop, rver, rgot, raux, ret, epochRes, listed, nreq>>
    /\ UNCHANGED <<jobVars, auxVars>>

\* A lookup that remembers a missing row in the detail index (negative caching).
GetMediaQueryNegative(r) ==
    /\ rpc[r] = "query" /\ rop[r].kind = "media"
    /\ LET result == fetch_single(store, rop[r].cat, rop[r].id)
       IN IF result = None
          THEN /\ cache' = [cache EXCEPT
                               ![media_details(rop[r].cat)][rop[r].id] = Some(None)]
               /\ Return(r, None, FALSE, cache')
               /\ UNCHANGED <<store, dbVersion, storeLog, last_db_version, listed, nreq>>
          ELSE /\ rgot' = [rgot EXCEPT ![r] = result]
               /\ rpc' = [rpc EXCEPT ![r] = "insert"]
               /\ UNCHANGED <<store, dbVersion, storeLog, cache, last_db_version,
                              rop, rver, raux, ret, epochRes, listed, nreq>>
    /\ UNCHANGED <<jobVars, auxVars>>

\* get_video / get_short, then `result.ok_or_else(not_found)?`: a missing row
\* returns the not-found error (None here) without touching the cache.
GetMediaQuery(r) ==
    /\ rpc[r] = "query" /\ rop[r].kind = "media"
    /\ LET result == fetch_single(store, rop[r].cat, rop[r].id)
       IN IF result = None
          THEN /\ Return(r, None, FALSE, cache)
               /\ UNCHANGED <<store, dbVersion, storeLog, cache, last_db_version, listed, nreq>>
          ELSE /\ rgot' = [rgot EXCEPT ![r] = result]
               /\ rpc' = [rpc EXCEPT ![r] = "insert"]
               /\ UNCHANGED <<store, dbVersion, storeLog, cache, last_db_version,
                              rop, rver, raux, ret, epochRes, listed, nreq>>
    /\ UNCHANGED <<jobVars, auxVars>>

GetMediaInsert(r) ==
    /\ rpc[r] = "insert" /\ rop[r].kind = "media"
    /\ cache' = [cache EXCEPT ![media_details(rop[r].cat)][rop[r].id] = rgot[r]]
    /\ Return(r, rgot[r], FALSE, cache')
    /\ UNCHANGED <<store, dbVersion, storeLog, last_db_version, listed, nreq>>
    /\ UNCHANGED <<jobVars, auxVars>>

\* ---------------------------------------------------------------------------
\* AppState::get_comments
\* ---------------------------------------------------------------------------

GetCommentsLookup(r) ==
    /\ rpc[r] = "lookup" /\ rop[r].kind = "comments"
    /\ IF cache.comments[rop[r].id] # None
       THEN /\ Return(r, cache.comments[rop[r].id][1], TRUE, cache)
            /\ UNCHANGED <<store, dbVersion, storeLog, cache, last_db_version, listed, nreq>>
       ELSE /\ rpc' = [rpc EXCEPT ![r] = "query"]
            /\ UNCHANGED <<store, dbVersion, storeLog, cache, last_db_version,
                           rop, rver, rgot, raux, ret, epochRes, listed, nreq>>
    /\ UNCHANGED <<jobVars, auxVars>>

GetCommentsQuery(r) ==
    /\ rpc[r] = "query" /\ rop[r].kind = "comments"
    /\ rgot' = [rgot EXCEPT ![r] = Some(reader_get_comments(store, rop[r].id))]
    /\ rpc' = [rpc EXCEPT ![r] = "insert"]
    /\ UNCHANGED <<store, dbVersion, storeLog, cache, last_db_version,
                   rop, rver, raux, ret, epochRes, listed, nreq>>
    /\ UNCHANGED <<jobVars, auxVars>>

\* An insert that moves the Vec out to the caller and caches an empty one.
GetCommentsInsertEmpty(r) ==
    /\ rpc[r] = "insert" /\ rop[r].kind = "comments"
    /\ cache' = [cache EXCEPT !.comments[rop[r].id] = Some({})]
    /\ Return(r, rgot[r][1], FALSE, cache')
    /\ UNCHANGED <<store, dbVersion, storeLog, last_db_version, listed, nreq>>
    /\ UNCHANGED <<jobVars, auxVars>>

GetCommentsInsert(r) ==
    /\ rpc[r] = "insert" /\ rop[r].kind = "comments"
    /\ cache' = [cache EXCEPT !.comments[rop[r].id] = rgot[r]]
    /\ Return(r, rgot[r][1], FALSE, cache')
    /\ UNCHANGED <<store, dbVersion, storeLog, last_db_version, listed, nreq>>
    /\ UNCHANGED <<jobVars, auxVars>>

\* ---------------------------------------------------------------------------
\* AppState::get_subtitles
\* ---------------------------------------------------------------------------

GetSubtitlesLookup(r) ==
    /\ rpc[r] = "lookup" /\ rop[r].kind = "subtitles"
    /\ IF cache.subtitles[rop[r].id] # None
       THEN /\ Return(r, cache.subtitles[rop[r].id], TRUE, cache)
            /\ UNCHANGED <<store, dbVersion, storeLog, cache, last_db_version, listed, nreq>>
       ELSE /\ rpc' = [rpc EXCEPT ![r] = "query"]
            /\ UNCHANGED <<store, dbVersion, storeLog, cache, last_db_version,
                           rop, rver, rgot, raux, ret, epochRes, listed, nreq>>
    /\ UNCHANGED <<jobVars, auxVars>>

\* `if let Some(collection) = &result { insert }; Ok(result)`
GetSubtitlesQuery(r) ==
    /\ rpc[r] = "query" /\ rop[r].kind = "subtitles"
    /\ LET result == reader_get_subtitles(store, rop[r].id)
       IN IF result = None
          THEN /\ Return(r, None, FALSE, cache)
               /\ UNCHANGED <<store, dbVersion, storeLog, cache, last_db_version, listed, nreq>>
          ELSE /\ rgot' = [rgot EXCEPT ![r] = result]
               /\ rpc' = [rpc EXCEPT ![r] = "insert"]
               /\ UNCHANGED <<store, dbVersion, storeLog, cache, last_db_version,
                              rop, rver, raux, ret, epochRes, listed, nreq>>
    /\ UNCHANGED <<jobVars, auxVars>>

GetSubtitlesInsert(r) ==
    /\ rpc[r] = "insert" /\ rop[r].kind = "subtitles"
    /\ cache' = [cache EXCEPT !.subtitles[rop[r].id] = rgot[r]]
    /\ Return(r, rgot[r], FALSE, cache')
    /\ UNCHANGED <<store, dbVersion, storeLog, last_db_version, listed, nreq>>
    /\ UNCHANGED <<jobVars, auxVars>>

\* ---------------------------------------------------------------------------
\* Store failures: `.map_err(|err| ApiError::internal(err.to_string()))?`
\* ---------------------------------------------------------------------------

InternalError == "internal error"

\* The request of r ends with ApiError::internal; got is what its queries had
\* returned before the failing one.
ReturnError(r, o, issued, got) ==
    /\ rpc' = [rpc EXCEPT ![r] = "idle"]
    /\ rop' = [rop EXCEPT ![r] = NoOp]
    /\ rver' = [rver EXCEPT ![r] = 0]
    /\ rgot' = [rgot EXCEPT ![r] = None]
    /\ raux' = [raux EXCEPT ![r] = NoAux]
    /\ ret' = [ret EXCEPT ![r] =
                  Some([op |-> NoOp, failed |-> o, res |-> InternalError, hit |-> FALSE,
                        issued |-> issued, returned |-> dbVersion, got |-> got])]

\* ensure_fresh_cache: reader.data_version() fails and `?` returns the error
\* before the last_db_version lock is taken.
DataVersionFails(r, o) ==
    /\ Idle(r)
    /\ nreq < MaxRequests
    /\ nreq' = nreq + 1
    /\ ReturnError(r, o, dbVersion, None)
    /\ UNCHANGED <<store, dbVersion, storeLog, cache, last_db_version, epochRes, listed>>
    /\ UNCHANGED <<jobVars, auxVars>>

\* A bootstrap that caches what it had assembled when a query failed.
QueryFailsCaching(r) ==
    /\ rpc[r] \in {"list_videos", "list_shorts", "list_subtitles",
                   "list_all_comments", "query"}
    /\ cache' = IF rop[r].kind = "bootstrap"
                THEN [cache EXCEPT !.bootstrap =
                         Some([videos |-> IF Len(rgot[r]) >= 1 THEN rgot[r][1] ELSE {},
                               shorts |-> IF Len(rgot[r]) >= 2 THEN rgot[r][2] ELSE {},
                               subtitles |-> IF Len(rgot[r]) >= 3 THEN rgot[r][3] ELSE {},
                               comments |-> {}])]
                ELSE cache
    /\ ReturnError(r, rop[r], raux[r].issued, rgot[r])
    /\ UNCHANGED <<store, dbVersion, storeLog, last_db_version, epochRes, listed, nreq>>
    /\ UNCHANGED <<jobVars, auxVars>>

\* A query of the reader fails (any of the four of get_bootstrap, or the one
\* of get_media_list, get_media, get_comments, get_subtitles) and `?` returns
\* the error: what was fetched so far is dropped with the future.
QueryFails(r) ==
    /\ rpc[r] \in {"list_videos", "list_shorts", "list_subtitles",
                   "list_all_comments", "query"}
    /\ ReturnError(r, rop[r], raux[r].issued, rgot[r])
    /\ UNCHANGED <<store, dbVersion, storeLog, cache, last_db_version,
                   epochRes, listed, nreq>>
    /\ UNCHANGED <<jobVars, auxVars>>

\* ---------------------------------------------------------------------------
\* Specifications of the cache
\* ---------------------------------------------------------------------------

InitCache ==
    /\ store \in InitialStores
    /\ dbVersion = 0
    /\ storeLog = <<store>>
    /\ cache = ApiCacheNew
    /\ last_db_version = None
    /\ rpc = [r \in Readers |-> "idle"]
    /\ rop = [r \in Readers |-> NoOp]
    /\ rver = [r \in Readers |-> 0]
    /\ rgot = [r \in Readers |-> None]
    /\ raux = [r \in Readers |-> NoAux]
    /\ ret = [r \in Readers |-> None]
    /\ epochRes = [o \in Ops |-> None]
    /\ listed = [c \in Categories |-> None]
    /\ nreq = 0

\* ---------------------------------------------------------------------------
\* DownloadManager
\* ---------------------------------------------------------------------------

\* Number of jobs started while the backend runs.
MaxJobs == 2

\* Largest number of entries a channel lists.
MaxEntries == 2

\* Concurrent callers of POST /api/downloads/video and /channel.
Callers == {"c1", "c2"}

\* `counter: AtomicUsize::new(1)`
CounterStart == 1

JobNumbers == 1..MaxJobs

\* `format!("download-{id}")`
JobId(n) == "download-" \o ToString(n)

\* `media_root.join(DOWNLOADS_DIR).join(format!("{job_id}.json"))`
progress_file_path(job_id) == "downloads/" \o job_id \o ".json"

ProgressPaths == {progress_file_path(JobId(n)) : n \in JobNumbers}

\* Ids a client may poll: every id that can be handed out, and one that cannot.
PollIds == {JobId(n) : n \in JobNumbers} \cup {"download-0"}

\* A status rendered by its variant name.
as_variant_name(status) ==
    CASE status = "Queued" -> "queued"
      [] status = "Running" -> "running"
      [] status = "Success" -> "success"
      [] OTHER -> "failed"

\* DownloadStatus::as_str
as_str(status) ==
    CASE status = "Queued" -> "queued"
      [] status = "Running" -> "running"
      [] status = "Success" -> "completed"
      [] OTHER -> "failed"

Min(a, b) == IF a < b THEN a ELSE b

\* A report written with the progress it is given.
ProgressReportUnclamped(progress, message) ==
    [progress |-> progress, message |-> message]

\* ProgressReport { progress: progress.min(100), message }
ProgressReport(progress, message) ==
    [progress |-> Min(progress, 100), message |-> message]

\* write_json_atomic through write_progress_report (backend) and
\* ProgressWriter::write (downloader): the file is replaced as a whole, and a
\* failed write is logged and leaves the file as it was.
write_progress_report(fs, path, progress, message) ==
    IF fsWritable
    THEN [fs EXCEPT ![path] = Some(ProgressReport(progress, message))]
    ELSE fs

\* fs::read_to_string(path).ok() then serde_json::from_str(..).ok(): None for
\* a missing file and for a content that is not a ProgressReport.
read_progress_report(fs, path) ==
    IF fs[path] # None /\ DOMAIN fs[path][1] = {"progress", "message"}
    THEN fs[path] ELSE None

\* `if let Some(job) = inner.jobs.lock().get_mut(job_id) { ... }`
update_job_status(js, job_id, status, message) ==
    IF job_id \in DOMAIN js
    THEN [js EXCEPT ![job_id].status = status, ![job_id].message = message]
    ELSE js

\* HashMap::insert
JobsInsert(js, job) ==
    [k \in DOMAIN js \cup {job.id} |-> IF k = job.id THEN job ELSE js[k]]

NoCall == [pc |-> "idle", kind |-> "video", n |-> 0]
NoTask == [pc |-> "none", kind |-> "video", resolved |-> "no", err |-> ""]
NoDl == [pc |-> "none", phase |-> "start", completed |-> 0, total |-> 0, code |-> 0]
NoPoll == [pc |-> "idle", job |-> None]

\* A percentage that counts the entry being processed as done.
PercentOfNext(completed, total) == (((completed + 1) * 100) \div total) % 256

\* `((*completed * 100) / total) as u8`
Percent(completed, total) == ((completed * 100) \div total) % 256

\* One update_progress call of download_channel: the report written and where
\* the run stands after it.
DlStep(progress, message, phase, completed, total) ==
    [report |-> ProgressReport(progress, message), phase |-> phase,
     completed |-> completed, total |-> total]

\* The update_progress calls download_channel can make next. A single video
\* (main, download_single_video): 5, then 20 when the media is to be fetched
\* or 40 when the archive has it, then 75, then 100. A channel (main,
\* download_channel_entries, process_media_list): 0, then "No videos found"
\* when the lists are empty or one report per entry, then 100.
DlSteps(kind, d) ==
    CASE d.phase = "start" ->
            IF kind = "video"
            THEN {DlStep(5, "Preparing download", "media", 0, 0)}
            ELSE {DlStep(0, "Fetching channel list", "list", 0, 0)}
      [] d.phase = "media" ->
            {DlStep(20, "Downloading media", "metadata", 0, 0),
             DlStep(40, "Refreshing metadata", "metadata", 0, 0)}
      [] d.phase = "metadata" ->
            {DlStep(75, "Refreshing metadata", "complete", 0, 0)}
      [] d.phase = "list" ->
            {DlStep(100, "No videos found", "complete", 0, 0)}
            \cup {DlStep(Percent(1, total),
                         "Downloading 1/" \o ToString(total),
                         IF total = 1 THEN "complete" ELSE "entries", 1, total) :
                    total \in 1..MaxEntries}
      [] d.phase = "entries" ->
            {DlStep(Percent(d.completed + 1, d.total),
                    "Downloading " \o ToString(d.completed + 1) \o "/"
                        \o ToString(d.total),
                    IF d.completed + 1 = d.total THEN "complete" ELSE "entries",
                    d.completed + 1, d.total)}
      [] d.phase = "complete" ->
            {DlStep(100, "Download complete", "end", 0, 0)}
      [] OTHER -> {}

\* ---- start_video_download / start_channel_download -------------------------

\* A counter read that leaves the counter as it is.
load(c) == c

\* `counter.fetch_add(1, Ordering::Relaxed)`: the value the counter holds next;
\* the value it held is the one returned.
fetch_add(c) == c + 1

\* find_download_channel_executable().ok() is Some: one of the candidate
\* paths exists.
find_download_channel_executable == binary

\* A start call that looks the executable up itself.
NextJobIdLazy(c, kind) ==
    /\ call[c].pc = "idle"
    /\ find_download_channel_executable
    /\ Len(handed) < MaxJobs
    /\ counter' = fetch_add(counter)
    /\ handed' = Append(handed, counter)
    /\ call' = [call EXCEPT ![c] = [pc |-> "write", kind |-> kind, n |-> counter]]
    /\ polled' = None
    /\ UNCHANGED <<downloader, binary, fsWritable, jobs, files, task, dl, poll,
                   returned>>
    /\ UNCHANGED <<cacheVars, auxVars>>

\* The executable is installed while the backend runs.
InstallBinary ==
    /\ ~binary
    /\ binary' = TRUE
    /\ polled' = None
    /\ UNCHANGED <<downloader, fsWritable, counter, jobs, files, call, task, dl,
                   poll, handed, returned>>
    /\ UNCHANGED <<cacheVars, auxVars>>

\* `downloader.clone().ok_or_else(..)?` then `self.next_job_id()`
NextJobId(c, kind) ==
    /\ call[c].pc = "idle"
    /\ downloader
    /\ Len(handed) < MaxJobs
    /\ counter' = fetch_add(counter)
    /\ handed' = Append(handed, counter)
    /\ call' = [call EXCEPT ![c] = [pc |-> "write", kind |-> kind, n |-> counter]]
    /\ polled' = None
    /\ UNCHANGED <<downloader, binary, fsWritable, jobs, files, task, dl, poll, returned>>
    /\ UNCHANGED <<cacheVars, auxVars>>

\* Without a downloader binary both start calls return the error at once.
StartRefused(c, kind) ==
    /\ call[c].pc = "idle"
    /\ ~downloader
    /\ returned' = Append(returned, "error")
    /\ Len(returned) < MaxJobs
    /\ polled' = None
    /\ UNCHANGED <<downloader, binary, fsWritable, counter, jobs, files, call, task, dl,
                   poll, handed>>
    /\ UNCHANGED <<cacheVars, auxVars>>

\* A start call that leaves the first report to the spawned task.
StartWriteProgressSkipped(c) ==
    /\ call[c].pc = "write"
    /\ call' = [call EXCEPT ![c].pc = "insert"]
    /\ polled' = None
    /\ UNCHANGED <<downloader, binary, fsWritable, counter, jobs, files, task, dl, poll,
                   handed, returned>>
    /\ UNCHANGED <<cacheVars, auxVars>>

\* `write_progress_report(&progress_file, 0, ..)`
StartWriteProgress(c) ==
    /\ call[c].pc = "write"
    /\ files' = write_progress_report(files, progress_file_path(JobId(call[c].n)), 0,
                    IF call[c].kind = "video" THEN "Queued download"
                    ELSE "Resolving channel")
    /\ call' = [call EXCEPT ![c].pc = "insert"]
    /\ polled' = None
    /\ UNCHANGED <<downloader, binary, fsWritable, counter, jobs, task, dl, poll, handed,
                   returned>>
    /\ UNCHANGED <<cacheVars, auxVars>>

\* `self.inner.jobs.lock().insert(job_id.clone(), DownloadJob { .. })`
StartInsert(c) ==
    /\ call[c].pc = "insert"
    /\ jobs' = JobsInsert(jobs,
                  [id |-> JobId(call[c].n), status |-> "Queued",
                   progress_file |-> progress_file_path(JobId(call[c].n)),
                   message |-> "Queued"])
    /\ call' = [call EXCEPT ![c].pc = "spawn"]
    /\ polled' = None
    /\ UNCHANGED <<downloader, binary, fsWritable, counter, files, task, dl, poll, handed,
                   returned>>
    /\ UNCHANGED <<cacheVars, auxVars>>

\* `tokio::spawn(async move { .. }); Ok(job_id)`
StartSpawn(c) ==
    /\ call[c].pc = "spawn"
    /\ task' = [task EXCEPT ![call[c].n] =
                   [NoTask EXCEPT !.pc = "spawned", !.kind = call[c].kind]]
    /\ returned' = Append(returned, JobId(call[c].n))
    /\ call' = [call EXCEPT ![c] = NoCall]
    /\ polled' = None
    /\ UNCHANGED <<downloader, binary, fsWritable, counter, jobs, files, dl, poll, handed>>
    /\ UNCHANGED <<cacheVars, auxVars>>

\* ---- the spawned task -------------------------------------------------------

\* A first statement that gets the job table only when no downloader runs, as
\* if a task kept the table locked while its downloader runs.
TaskRunningWhenTableFree(n) ==
    /\ task[n].pc = "spawned"
    /\ \A m \in JobNumbers : dl[m].pc # "running"
    /\ jobs' = update_job_status(jobs, JobId(n), "Running",
                  IF task[n].kind = "video" THEN "Running" ELSE "Resolving channel")
    /\ task' = [task EXCEPT ![n].pc =
                   IF task[n].kind = "video" THEN "run" ELSE "resolve"]
    /\ polled' = None
    /\ UNCHANGED <<downloader, binary, fsWritable, counter, files, call, dl, poll, handed,
                   returned>>
    /\ UNCHANGED <<cacheVars, auxVars>>

\* First statement of the task: update_job_status(.., Running, ..). A channel
\* job is marked Running with the message "Resolving channel".
TaskRunning(n) ==
    /\ task[n].pc = "spawned"
    /\ jobs' = update_job_status(jobs, JobId(n), "Running",
                  IF task[n].kind = "video" THEN "Running" ELSE "Resolving channel")
    /\ task' = [task EXCEPT ![n].pc =
                   IF task[n].kind = "video" THEN "run" ELSE "resolve"]
    /\ polled' = None
    /\ UNCHANGED <<downloader, binary, fsWritable, counter, files, call, dl, poll, handed,
                   returned>>
    /\ UNCHANGED <<cacheVars, auxVars>>

\* The resolution step without the `return` of its failure arm: the task goes
\* on to run the downloader.
TaskResolveFallThrough(n, ok) ==
    /\ task[n].pc = "resolve"
    /\ task' = [task EXCEPT
                  ![n].resolved = IF ok THEN "ok" ELSE "failed",
                  ![n].pc = "run",
                  ![n].err = IF ok THEN "" ELSE "channel url not found"]
    /\ polled' = None
    /\ UNCHANGED <<downloader, binary, fsWritable, counter, jobs, files, call, dl, poll,
                   handed, returned>>
    /\ UNCHANGED <<cacheVars, auxVars>>

\* `spawn_blocking(resolve_channel_url).await`: yt-dlp answers with a channel
\* url, or the lookup fails (yt-dlp missing or failing, no url in the answer).
TaskResolve(n, ok) ==
    /\ task[n].pc = "resolve"
    /\ task' = [task EXCEPT
                  ![n].resolved = IF ok THEN "ok" ELSE "failed",
                  ![n].pc = IF ok THEN "run" ELSE "fail_write",
                  ![n].err = IF ok THEN "" ELSE "channel url not found"]
    /\ polled' = None
    /\ UNCHANGED <<downloader, binary, fsWritable, counter, jobs, files, call, dl, poll, handed,
                   returned>>
    /\ UNCHANGED <<cacheVars, auxVars>>

\* run_download_channel: Command::status() starts the subprocess, or fails
\* to launch it.
TaskLaunch(n, launched) ==
    /\ task[n].pc = "run"
    /\ IF launched
       THEN /\ dl' = [dl EXCEPT ![n] = [NoDl EXCEPT !.pc = "running"]]
            /\ task' = [task EXCEPT ![n].pc = "wait"]
       ELSE /\ task' = [task EXCEPT ![n].pc = "fail_write",
                                    ![n].err = "launching download_channel"]
            /\ dl' = dl
    /\ polled' = None
    /\ UNCHANGED <<downloader, binary, fsWritable, counter, jobs, files, call, poll, handed,
                   returned>>
    /\ UNCHANGED <<cacheVars, auxVars>>

\* download_channel rewrites the progress file (update_progress).
DlWrite(n) ==
    /\ dl[n].pc = "running"
    /\ \E step \in DlSteps(task[n].kind, dl[n]) :
          /\ files' = write_progress_report(files, progress_file_path(JobId(n)),
                          step.report.progress, step.report.message)
          /\ dl' = [dl EXCEPT ![n].phase = step.phase,
                              ![n].completed = step.completed,
                              ![n].total = step.total]
    /\ polled' = None
    /\ UNCHANGED <<downloader, binary, fsWritable, counter, jobs, call, task, poll, handed,
                   returned>>
    /\ UNCHANGED <<cacheVars, auxVars>>

\* download_channel exits: with 0 once main has written "Download complete",
\* with a failure status at any point before.
DlExit(n, code) ==
    /\ dl[n].pc = "running"
    /\ code = 0 <=> dl[n].phase = "end"
    /\ dl' = [dl EXCEPT ![n] = [NoDl EXCEPT !.pc = "exited", !.phase = "end",
                                           !.code = code]]
    /\ polled' = None
    /\ UNCHANGED <<downloader, binary, fsWritable, counter, jobs, files, call, task, poll,
                   handed, returned>>
    /\ UNCHANGED <<cacheVars, auxVars>>

\* A task that goes on only when the downloader exited with 0.
TaskJoinSuccessOnly(n) ==
    /\ task[n].pc = "wait"
    /\ dl[n].pc = "exited"
    /\ dl[n].code = 0
    /\ task' = [task EXCEPT ![n].pc = "success", ![n].err = ""]
    /\ polled' = None
    /\ UNCHANGED <<downloader, binary, fsWritable, counter, jobs, files, call, dl, poll,
                   handed, returned>>
    /\ UNCHANGED <<cacheVars, auxVars>>

\* `.await` of the blocking task returns the exit status.
TaskJoin(n) ==
    /\ task[n].pc = "wait"
    /\ dl[n].pc = "exited"
    /\ task' = [task EXCEPT
                  ![n].pc = IF dl[n].code = 0 THEN "success" ELSE "fail_write",
                  ![n].err = IF dl[n].code = 0 THEN ""
                             ELSE "download_channel exited with exit status: 1"]
    /\ polled' = None
    /\ UNCHANGED <<downloader, binary, fsWritable, counter, jobs, files, call, dl, poll, handed,
                   returned>>
    /\ UNCHANGED <<cacheVars, auxVars>>

\* A success arm that drops the finished job from the table.
TaskSuccessEvict(n) ==
    /\ task[n].pc = "success"
    /\ jobs' = [k \in DOMAIN jobs \ {JobId(n)} |-> jobs[k]]
    /\ task' = [task EXCEPT ![n].pc = "done"]
    /\ polled' = None
    /\ UNCHANGED <<downloader, binary, fsWritable, counter, files, call, dl, poll, handed,
                   returned>>
    /\ UNCHANGED <<cacheVars, auxVars>>

\* `Ok(Ok(())) => update_job_status(.., Success, "Done")`
TaskSuccess(n) ==
    /\ task[n].pc = "success"
    /\ jobs' = update_job_status(jobs, JobId(n), "Success", "Done")
    /\ task' = [task EXCEPT ![n].pc = "done"]
    /\ polled' = None
    /\ UNCHANGED <<downloader, binary, fsWritable, counter, files, call, dl, poll, handed,
                   returned>>
    /\ UNCHANGED <<cacheVars, auxVars>>

\* A failure arm that resets the progress file to 0.
TaskFailWriteReset(n) ==
    /\ task[n].pc = "fail_write"
    /\ files' = write_progress_report(files, progress_file_path(JobId(n)), 0,
                    "Download failed")
    /\ task' = [task EXCEPT ![n].pc = "fail_status"]
    /\ polled' = None
    /\ UNCHANGED <<downloader, binary, fsWritable, counter, jobs, call, dl, poll, handed,
                   returned>>
    /\ UNCHANGED <<cacheVars, auxVars>>

\* A failure arm that leaves the progress file as the downloader left it.
TaskFailWriteSkipped(n) ==
    /\ task[n].pc = "fail_write"
    /\ task' = [task EXCEPT ![n].pc = "fail_status"]
    /\ polled' = None
    /\ UNCHANGED <<downloader, binary, fsWritable, counter, jobs, files, call, dl, poll,
                   handed, returned>>
    /\ UNCHANGED <<cacheVars, auxVars>>

\* `write_progress_report(&progress_file, 100, "Download failed")`, or
\* "Channel lookup failed" when the resolution step failed.
TaskFailWrite(n) ==
    /\ task[n].pc = "fail_write"
    /\ files' = write_progress_report(files, progress_file_path(JobId(n)), 100,
                    IF task[n].resolved = "failed" THEN "Channel lookup failed"
                    ELSE "Download failed")
    /\ task' = [task EXCEPT ![n].pc = "fail_status"]
    /\ polled' = None
    /\ UNCHANGED <<downloader, binary, fsWritable, counter, jobs, call, dl, poll, handed,
                   returned>>
    /\ UNCHANGED <<cacheVars, auxVars>>

\* A failure arm that puts the job back in the queue and runs it again.
TaskFailStatusRequeue(n) ==
    /\ task[n].pc = "fail_status"
    /\ jobs' = update_job_status(jobs, JobId(n), "Queued", "Failed: " \o task[n].err)
    /\ task' = [task EXCEPT ![n].pc = "done"]
    /\ polled' = None
    /\ UNCHANGED <<downloader, binary, fsWritable, counter, files, call, dl, poll, handed,
                   returned>>
    /\ UNCHANGED <<cacheVars, auxVars>>

\* A failure arm that marks the job Failed and runs the downloader again.
TaskFailStatusRetry(n) ==
    /\ task[n].pc = "fail_status"
    /\ jobs' = update_job_status(jobs, JobId(n), "Failed", "Failed: " \o task[n].err)
    /\ task' = [task EXCEPT ![n].pc = "run"]
    /\ polled' = None
    /\ UNCHANGED <<downloader, binary, fsWritable, counter, files, call, dl, poll, handed,
                   returned>>
    /\ UNCHANGED <<cacheVars, auxVars>>

\* `update_job_status(.., Failed, &format!("Failed: {err}"))`
TaskFailStatus(n) ==
    /\ task[n].pc = "fail_status"
    /\ jobs' = update_job_status(jobs, JobId(n), "Failed", "Failed: " \o task[n].err)
    /\ task' = [task EXCEPT ![n].pc = "done"]
    /\ polled' = None
    /\ UNCHANGED <<downloader, binary, fsWritable, counter, files, call, dl, poll, handed,
                   returned>>
    /\ UNCHANGED <<cacheVars, auxVars>>

\* ---- get_status -------------------------------------------------------------

\* A status message taken from the job record whatever the progress file says.
StatusMessageFromJob(report, job) == job.message

\* The message get_status reports: the progress file's when it can be read,
\* else the job record's.
StatusMessage(report, job) ==
    IF report # None THEN report[1].message ELSE job.message

\* A progress taken without a look at the progress file.
StatusProgressUnread(report) == 0

\* The progress get_status reports: the progress file's, else 0.
StatusProgress(report) ==
    IF report # None THEN report[1].progress ELSE 0

\* A lookup that enters a Queued record for an id the table does not hold.
GetStatusLockOrInsert(job_id) ==
    /\ poll.pc = "idle"
    /\ IF job_id \in DOMAIN jobs
       THEN /\ poll' = [pc |-> "read", job |-> Some(jobs[job_id])]
            /\ polled' = None
            /\ jobs' = jobs
       ELSE /\ poll' = NoPoll
            /\ polled' = Some([id |-> job_id, found |-> FALSE])
            /\ jobs' = JobsInsert(jobs,
                          [id |-> job_id, status |-> "Queued",
                           progress_file |-> progress_file_path(job_id),
                           message |-> "Queued"])
    /\ UNCHANGED <<downloader, binary, fsWritable, counter, files, call, task, dl,
                   handed, returned>>
    /\ UNCHANGED <<cacheVars, auxVars>>

\* `let job = self.inner.jobs.lock().get(job_id).cloned()?`
GetStatusLock(job_id) ==
    /\ poll.pc = "idle"
    /\ IF job_id \in DOMAIN jobs
       THEN /\ poll' = [pc |-> "read", job |-> Some(jobs[job_id])]
            /\ polled' = None
       ELSE /\ poll' = NoPoll
            /\ polled' = Some([id |-> job_id, found |-> FALSE])
    /\ UNCHANGED <<downloader, binary, fsWritable, counter, jobs, files, call, task, dl,
                   handed, returned>>
    /\ UNCHANGED <<cacheVars, auxVars>>

\* An answer that is not-found when the progress file cannot be read.
GetStatusReadStrict ==
    /\ poll.pc = "read"
    /\ LET job == poll.job[1]
           report == read_progress_report(files, job.progress_file)
       IN polled' = IF report = None
                    THEN Some([id |-> job.id, found |-> FALSE])
                    ELSE Some([id |-> job.id, found |-> TRUE,
                               status |-> as_str(job.status),
                               progress |-> StatusProgress(report),
                               message |-> StatusMessage(report, job),
                               job |-> job, report |-> report])
    /\ poll' = NoPoll
    /\ UNCHANGED <<downloader, binary, fsWritable, counter, jobs, files, call, task, dl,
                   handed, returned>>
    /\ UNCHANGED <<cacheVars, auxVars>>

\* `read_progress_report(&job.progress_file)` and the DownloadJobStatus built
\* from it.
GetStatusRead ==
    /\ poll.pc = "read"
    /\ LET job == poll.job[1]
           report == read_progress_report(files, job.progress_file)
       IN polled' = Some([id |-> job.id, found |-> TRUE,
                          status |-> as_str(job.status),
                          progress |-> StatusProgress(report),
                          message |-> StatusMessage(report, job),
                          job |-> job, report |-> report])
    /\ poll' = NoPoll
    /\ UNCHANGED <<downloader, binary, fsWritable, counter, jobs, files, call, task, dl,
                   handed, returned>>
    /\ UNCHANGED <<cacheVars, auxVars>>

\* The downloads directory is an ordinary directory: a progress file can be
\* removed, or be left with a content that is no ProgressReport.
DamageFile(n, content) ==
    /\ files[progress_file_path(JobId(n))] # None
    /\ files[progress_file_path(JobId(n))] # content
    /\ files' = [files EXCEPT ![progress_file_path(JobId(n))] = content]
    /\ polled' = None
    /\ UNCHANGED <<downloader, binary, fsWritable, counter, jobs, call, task, dl, poll,
                   handed, returned>>
    /\ UNCHANGED <<cacheVars, auxVars>>

\* ---- one progress file, one system call at a time ---------------------------

\* The chunks a payload is written and read in.
Chunks == 2

\* The writes the downloader makes to the file in one run.
MaxDlWrites == 2

Writers == {"orchestrator", "downloader"}

\* The progress file of the job and the reports each side writes into it.
TheJob == JobId(CounterStart)

OrchestratorReports ==
    {ProgressReport(0, "Queued download"), ProgressReport(100, "Download failed")}

DownloaderReports ==
    {ProgressReport(5, "Preparing download"), ProgressReport(100, "Download complete")}

\* A temporary name that is the name of the progress file itself.
same_path(job_id) == progress_file_path(job_id)

\* `path.with_extension("tmp")` of the progress file of job_id
tmp_path(job_id) == "downloads/" \o job_id \o ".tmp"

\* serde_json::to_vec(_pretty): the bytes of a report, in chunks.
to_vec(report) == [k \in 1..Chunks |-> <<report, k>>]

\* serde_json::from_str(..).ok(): only the whole payload of one report parses.
from_str(raw) ==
    IF \E r \in OrchestratorReports \cup DownloaderReports : raw = to_vec(r)
    THEN Some(raw[1][1])
    ELSE None

\* write(2) of one chunk at offset k of a file.
WriteAt(content, k, chunk) ==
    [i \in 1..(IF k > Len(content) THEN k ELSE Len(content)) |->
        IF i = k THEN chunk
        ELSE IF i <= Len(content) THEN content[i] ELSE <<"hole", i>>]

NoWriter == [pc |-> "idle", report |-> None, ino |-> 0, off |-> 0, n |-> 0]
NoReader == [pc |-> "idle", ino |-> 0, raw |-> <<>>]

\* The writes of one job are ordered by the code: the start call writes before
\* it spawns the task, the downloader writes while Command::status() waits for
\* it, and the failure arm writes after the subprocess has gone.
MayWrite(w) ==
    IF w = "orchestrator" THEN stage \in {"start", "exited"}
    ELSE stage = "running" /\ pw[w].n < MaxDlWrites

\* write_progress_report / ProgressWriter::write is entered with a report.
PwBegin(w, report) ==
    /\ pw[w].pc = "idle"
    /\ MayWrite(w)
    /\ report \in (IF w = "orchestrator" THEN OrchestratorReports ELSE DownloaderReports)
    /\ w = "orchestrator" =>
          report.progress = (IF stage = "start" THEN 0 ELSE 100)
    /\ pw' = [pw EXCEPT ![w] = [NoWriter EXCEPT !.pc = "create", !.report = Some(report),
                                                !.n = pw[w].n + 1]]
    /\ UNCHANGED <<dir, inodes, nextIno, stage, rd, seen>>
    /\ UNCHANGED <<cacheVars, jobVars, fnVars>>

\* `fs::write(&tmp_path, payload)`, the open: the temporary file is created,
\* or truncated if it is there.
PwCreate(w) ==
    /\ pw[w].pc = "create"
    /\ IF dir[tmp_path(TheJob)] = 0
       THEN /\ dir' = [dir EXCEPT ![tmp_path(TheJob)] = nextIno]
            /\ inodes' = [inodes EXCEPT ![nextIno] = <<>>]
            /\ nextIno' = nextIno + 1
            /\ pw' = [pw EXCEPT ![w].pc = "write", ![w].ino = nextIno, ![w].off = 1]
       ELSE /\ inodes' = [inodes EXCEPT ![dir[tmp_path(TheJob)]] = <<>>]
            /\ pw' = [pw EXCEPT ![w].pc = "write", ![w].ino = dir[tmp_path(TheJob)],
                                ![w].off = 1]
            /\ UNCHANGED <<dir, nextIno>>
    /\ UNCHANGED <<stage, rd, seen>>
    /\ UNCHANGED <<cacheVars, jobVars, fnVars>>

\* `fs::write(&tmp_path, payload)`, one write(2) of the payload.
PwChunk(w) ==
    /\ pw[w].pc = "write"
    /\ inodes' = [inodes EXCEPT ![pw[w].ino] =
                     WriteAt(inodes[pw[w].ino], pw[w].off, to_vec(pw[w].report[1])[pw[w].off])]
    /\ pw' = [pw EXCEPT ![w].off = pw[w].off + 1,
                        ![w].pc = IF pw[w].off = Chunks THEN "rename" ELSE "write"]
    /\ UNCHANGED <<dir, nextIno, stage, rd, seen>>
    /\ UNCHANGED <<cacheVars, jobVars, fnVars>>

\* The orchestrator's write has returned: the start call goes on to insert the
\* job, spawn the task and launch the downloader; the failure arm ends the job.
StageAfter(w) ==
    IF w = "orchestrator"
    THEN (IF stage = "start" THEN "running" ELSE "done")
    ELSE stage

\* `fs::rename(&tmp_path, path)`: the name of the progress file now leads to
\* the temporary file, whose own name is gone.
PwRename(w) ==
    /\ pw[w].pc = "rename"
    /\ IF dir[tmp_path(TheJob)] # 0 /\ tmp_path(TheJob) # progress_file_path(TheJob)
       THEN dir' = [dir EXCEPT ![progress_file_path(TheJob)] = dir[tmp_path(TheJob)],
                               ![tmp_path(TheJob)] = 0]
       ELSE dir' = dir
    /\ pw' = [pw EXCEPT ![w].pc = "idle", ![w].report = None, ![w].ino = 0, ![w].off = 0]
    /\ stage' = StageAfter(w)
    /\ UNCHANGED <<inodes, nextIno, rd, seen>>
    /\ UNCHANGED <<cacheVars, jobVars, fnVars>>

\* create_dir_all, fs::write or fs::rename fails: the error is logged and the
\* write is given up where it stands.
PwFail(w) ==
    /\ pw[w].pc \in {"create", "write", "rename"}
    /\ pw' = [pw EXCEPT ![w].pc = "idle", ![w].report = None, ![w].ino = 0, ![w].off = 0]
    /\ stage' = StageAfter(w)
    /\ UNCHANGED <<dir, inodes, nextIno, rd, seen>>
    /\ UNCHANGED <<cacheVars, jobVars, fnVars>>

\* The downloader exits, or is killed in the middle of a write.
DlGone ==
    /\ stage = "running"
    /\ stage' = "exited"
    /\ pw' = [pw EXCEPT !["downloader"] = [NoWriter EXCEPT !.n = pw["downloader"].n]]
    /\ UNCHANGED <<dir, inodes, nextIno, rd, seen>>
    /\ UNCHANGED <<cacheVars, jobVars, fnVars>>

\* `fs::read_to_string(path)`, the open: the file the name leads to now, or
\* an error if there is none.
RdOpen ==
    /\ rd.pc = "idle"
    /\ IF dir[progress_file_path(TheJob)] = 0
       THEN /\ rd' = NoReader
            /\ seen' = Some([file |-> FALSE, raw |-> <<>>, report |-> None])
       ELSE /\ rd' = [pc |-> "read", ino |-> dir[progress_file_path(TheJob)], raw |-> <<>>]
            /\ seen' = None
    /\ UNCHANGED <<dir, inodes, nextIno, stage, pw>>
    /\ UNCHANGED <<cacheVars, jobVars, fnVars>>

\* `fs::read_to_string(path)`, one read(2): the next chunk of the open file,
\* or its end, and then `serde_json::from_str(&raw).ok()`.
RdChunk ==
    /\ rd.pc = "read"
    /\ IF Len(rd.raw) < Len(inodes[rd.ino])
       THEN /\ rd' = [rd EXCEPT !.raw = Append(rd.raw, inodes[rd.ino][Len(rd.raw) + 1])]
            /\ seen' = None
       ELSE /\ rd' = NoReader
            /\ seen' = Some([file |-> TRUE, raw |-> rd.raw, report |-> from_str(rd.raw)])
    /\ UNCHANGED <<dir, inodes, nextIno, stage, pw>>
    /\ UNCHANGED <<cacheVars, jobVars, fnVars>>

\* Inodes the file system can have created in one run of the job.
Inodes == 1..(2 + MaxDlWrites)

\* The downloads directory before the job's first write.
FileIdle ==
    /\ dir = [f \in {progress_file_path(TheJob), tmp_path(TheJob)} |-> 0]
    /\ inodes = [i \in Inodes |-> <<>>]
    /\ nextIno = 1
    /\ stage = "start"
    /\ pw = [w \in Writers |-> NoWriter]
    /\ rd = NoReader
    /\ seen = None

\* No function under study has been called.
FnIdle == input = None /\ output = None

AuxIdle == FileIdle /\ FnIdle

NextFile ==
    \/ \E w \in Writers, report \in OrchestratorReports \cup DownloaderReports :
          PwBegin(w, report)
    \/ \E w \in Writers : PwCreate(w)
    \/ \E w \in Writers : PwChunk(w)
    \/ \E w \in Writers : PwRename(w)
    \/ \E w \in Writers : PwFail(w)
    \/ DlGone
    \/ RdOpen
    \/ RdChunk

\* ---- the progress value: download_channel_entries, process_media_list -------

\* The longest list of videos, and of shorts, a channel has.
MaxList == 6

\* A channel with its two lists, and a `progress: u8` some caller passes to
\* write_progress_report or ProgressWriter::write.
InitProgress ==
    /\ input \in [videos : 0..MaxList, shorts : 0..MaxList, progress : {0, 100, 101, 255}]
    /\ output = [completed |-> 0, total |-> input.videos + input.shorts,
                 report |-> None, status |-> None]

\* `total == 0`: update_progress(progress, 100, "No videos found")
NoVideosFound ==
    /\ output.total = 0
    /\ output.report = None
    /\ output' = [output EXCEPT !.report = Some(ProgressReport(100, "No videos found")),
                                !.status = None]
    /\ UNCHANGED input
    /\ UNCHANGED <<cacheVars, jobVars, fileVars>>

\* One turn of the loop of process_media_list, over the videos and then over
\* the shorts: `*completed += 1`, the percentage, update_progress.
ProcessMediaEntry ==
    /\ output.completed < input.videos + input.shorts
    /\ output' = [output EXCEPT
                     !.completed = output.completed + 1,
                     !.report = IF output.total > 0
                                THEN Some(ProgressReport(
                                        Percent(output.completed + 1, output.total),
                                        "Downloading"))
                                ELSE output.report,
                     !.status = None]
    /\ UNCHANGED input
    /\ UNCHANGED <<cacheVars, jobVars, fileVars>>

\* write_progress_report / ProgressWriter::write called with input.progress.
WriteProgress ==
    /\ output' = [output EXCEPT !.report = Some(ProgressReport(input.progress, "written")),
                                !.status = None]
    /\ UNCHANGED input
    /\ UNCHANGED <<cacheVars, jobVars, fileVars>>

\* get_status reads the report.
ReadProgress ==
    /\ output.status = None
    /\ output' = [output EXCEPT !.status = Some(StatusProgress(output.report))]
    /\ UNCHANGED input
    /\ UNCHANGED <<cacheVars, jobVars, fileVars>>

NextProgress == NoVideosFound \/ ProcessMediaEntry \/ WriteProgress \/ ReadProgress


\* ---- stream_file and parse_range_header -------------------------------------

\* The width given to u64, so that a number too large to parse can be written.
U64Bits == 13

U64Max == 2^U64Bits - 1

\* A subtraction that takes nothing away.
sub_nothing(a, b) == a

\* u64::saturating_sub
saturating_sub(a, b) == IF a >= b THEN a - b ELSE 0

\* A header value is its sequence of characters.
Str(chars) == chars

DigitChars == <<"0", "1", "2", "3", "4", "5", "6", "7", "8", "9">>

\* `n.to_string()`, as characters
RECURSIVE Digits(_)
Digits(n) ==
    IF n < 10 THEN <<DigitChars[n + 1]>>
    ELSE Digits(n \div 10) \o <<DigitChars[(n % 10) + 1]>>

\* HeaderValue::to_str: only visible ASCII (and space, tab) is a str.
to_str(value) ==
    IF \E i \in 1..Len(value) : value[i] = "0xFF" THEN None ELSE Some(value)

\* str::trim
RECURSIVE trim(_)
trim(v) ==
    IF v = <<>> THEN v
    ELSE IF Head(v) = " " THEN trim(Tail(v))
    ELSE IF v[Len(v)] = " " THEN trim(SubSeq(v, 1, Len(v) - 1))
    ELSE v

\* The place of the first c in v, or Len(v) + 1 when there is none.
find(v, c) ==
    IF \E i \in 1..Len(v) : v[i] = c
    THEN CHOOSE i \in 1..Len(v) : v[i] = c /\ \A j \in 1..(i - 1) : v[j] # c
    ELSE Len(v) + 1

\* str::split(c), as the sequence of its pieces
RECURSIVE split(_, _)
split(v, c) ==
    IF find(v, c) > Len(v) THEN <<v>>
    ELSE <<SubSeq(v, 1, find(v, c) - 1)>> \o split(SubSeq(v, find(v, c) + 1, Len(v)), c)

\* str::split_once(c)
split_once(v, c) ==
    IF find(v, c) > Len(v) THEN None
    ELSE Some(<<SubSeq(v, 1, find(v, c) - 1), SubSeq(v, find(v, c) + 1, Len(v))>>)

IsDigit(c) == \E d \in 1..10 : DigitChars[d] = c

\* The value of a run of digits, U64Max + 1 standing for every larger value.
RECURSIVE digits_value(_, _)
digits_value(v, acc) ==
    IF v = <<>> THEN acc
    ELSE LET d == (CHOOSE k \in 1..10 : DigitChars[k] = Head(v)) - 1
             next == acc * 10 + d
         IN digits_value(Tail(v), IF next > U64Max THEN U64Max + 1 ELSE next)

\* A parse that takes what is not a number for 0.
parse_u64_or_zero(v) ==
    IF v = <<>> \/ \E i \in 1..Len(v) : ~IsDigit(v[i])
    THEN Some(0)
    ELSE IF digits_value(v, 0) > U64Max THEN None
    ELSE Some(digits_value(v, 0))

\* `str::parse::<u64>().ok()`: an optional '+', then one digit or more, and a
\* value that fits.
parse_u64(v) ==
    LET body == IF v # <<>> /\ Head(v) = "+" THEN Tail(v) ELSE v
    IN IF body = <<>> \/ \E i \in 1..Len(body) : ~IsDigit(body[i])
       THEN None
       ELSE IF digits_value(body, 0) > U64Max THEN None
       ELSE Some(digits_value(body, 0))

\* fn parse_range_header(value: &HeaderValue, size: u64) -> Option<(u64, u64)>
parse_range_header(value, size) ==
    IF to_str(value) = None THEN None
    ELSE
    LET parts == split(trim(value), "=")
    IN IF trim(parts[1]) # <<"b", "y", "t", "e", "s">> THEN None
       ELSE IF Len(parts) < 2 THEN None
       ELSE
       LET range == trim(parts[2])
       IN IF range = <<>> THEN None
          ELSE IF split_once(range, "-") = None THEN None
          ELSE
          LET start_str == split_once(range, "-")[1][1]
              end_str == split_once(range, "-")[1][2]
          IN IF start_str = <<>>
             THEN LET suffix_len == parse_u64(end_str)
                  IN IF suffix_len = None THEN None
                     ELSE IF suffix_len[1] = 0 THEN None
                     ELSE IF suffix_len[1] >= size
                          THEN Some(<<0, saturating_sub(size, 1)>>)
                     ELSE Some(<<size - suffix_len[1], saturating_sub(size, 1)>>)
             ELSE LET start == parse_u64(start_str)
                      end == IF end_str = <<>> THEN Some(saturating_sub(size, 1))
                             ELSE parse_u64(end_str)
                  IN IF start = None \/ end = None THEN None
                     ELSE IF end[1] < start[1] THEN None
                     ELSE Some(<<start[1], end[1]>>)

\* A length that leaves out the last byte of the window.
length_exclusive(start, end) == end - start

\* `let length = end - start + 1;` in u64
length(start, end) == (end - start + 1) % (U64Max + 1)

\* The bytes of a file of the given size: byte i holds i.
FileBytes(size) == [i \in 1..size |-> i - 1]

\* ApiError::not_found(message) as the client gets it.
not_found(message) ==
    [status |-> 404, content_range |-> None, content_length |-> None,
     body |-> <<>>, error |-> Some(message)]

\* stream_file once the file is open and its size known: the response for the
\* Range header, if any.
StreamResponse(file, size, header) ==
    LET range == IF header = None THEN None ELSE parse_range_header(header[1], size)
    IN IF range # None
       THEN IF range[1][1] >= size
            THEN [status |-> 416,
                  content_range |-> Some("bytes */" \o ToString(size)),
                  content_length |-> None, body |-> <<>>, error |-> None]
            ELSE LET start == range[1][1]
                     end == Min(range[1][2], saturating_sub(size, 1))
                 IN IF file = "seek_fails" THEN not_found("file not found")
                    ELSE [status |-> 206,
                          content_range |-> Some("bytes " \o ToString(start) \o "-"
                                                 \o ToString(end) \o "/" \o ToString(size)),
                          content_length |-> Some(length(start, end)),
                          body |-> SubSeq(FileBytes(size), start + 1,
                                          Min(start + length(start, end), size)),
                          error |-> None]
       ELSE [status |-> 200, content_range |-> None, content_length |-> None,
             body |-> FileBytes(size), error |-> None]

\* Range headers as clients write them.
Concat(unit, eq, start_str, dash, end_str) ==
    unit \o eq \o start_str \o dash \o end_str

BytesRange(start_str, end_str) ==
    Concat(<<"b", "y", "t", "e", "s">>, <<"=">>, start_str, <<"-">>, end_str)

\* The numbers written in the headers: the largest u64 is among them, and
\* 9999 is too large for U64Bits bits.
Nums == {0, 1, 3, 4, 9, 10, 50, 99, 100, 900, 999, 1000, 5000, 9999} \cup {U64Max}

Sizes == {0, 1, 10, 1000}

Units ==
    {<<"b", "y", "t", "e", "s">>, <<"i", "t", "e", "m", "s">>,
     <<" ", "b", "y", "t", "e", "s", " ">>}

StartStrs == {Digits(n) : n \in Nums} \cup {<<>>, <<"x">>, <<"+", "5">>, <<" ", "0">>}

EndStrs ==
    {Digits(n) : n \in Nums} \cup {<<>>, <<"x">>, <<"1", ",", "3", "-", "4">>, <<"0xFF">>}

RangeHeaders ==
    {Concat(unit, eq, a, dash, b) :
        unit \in Units, eq \in {<<"=">>, <<>>}, a \in StartStrs,
        dash \in {<<"-">>, <<>>}, b \in EndStrs}

\* A GET for a file, with or without a Range header.
InitStream ==
    /\ input \in [file : {"ok", "open_fails", "metadata_fails", "seek_fails"},
                  size : Sizes,
                  header : {None} \cup {Some(h) : h \in RangeHeaders}]
    /\ output = [pc |-> "start", size |-> 0, response |-> None,
                 path |-> <<"f">>, opened |-> <<>>]

\* An open that answers 500 with the text of the io::Error.
StreamFileOpenInternal ==
    /\ output.pc = "start"
    /\ IF input.file \in {"open_fails", "metadata_fails"}
       THEN output' = [output EXCEPT
                          !.pc = "done",
                          !.response = Some([not_found("No such file or directory (os error 2)")
                                                EXCEPT !.status = 500]),
                          !.opened = Append(@, output.path)]
       ELSE output' = [output EXCEPT !.pc = "opened", !.size = input.size,
                                     !.opened = Append(@, output.path)]
    /\ UNCHANGED input
    /\ UNCHANGED <<cacheVars, jobVars, fileVars>>

\* `File::open(&path)` and `file.metadata()`, each error mapped to not_found.
StreamFileOpen ==
    /\ output.pc = "start"
    /\ IF input.file \in {"open_fails", "metadata_fails"}
       THEN output' = [output EXCEPT !.pc = "done",
                                     !.response = Some(not_found("file not found")),
                                     !.opened = Append(@, output.path)]
       ELSE output' = [output EXCEPT !.pc = "opened", !.size = input.size,
                                     !.opened = Append(@, output.path)]
    /\ UNCHANGED input
    /\ UNCHANGED <<cacheVars, jobVars, fileVars>>

\* The rest of stream_file: the Range header is parsed against the size and
\* the response is built.
StreamFileRespond ==
    /\ output.pc = "opened"
    /\ output' = [output EXCEPT
                     !.pc = "done",
                     !.response = Some(StreamResponse(input.file, output.size,
                                                      input.header))]
    /\ UNCHANGED input
    /\ UNCHANGED <<cacheVars, jobVars, fileVars>>

NextStream == StreamFileOpen \/ StreamFileRespond

\* ---- stream_media ------------------------------------------------------------

NotEmpty(piece) == piece # <<>>

NotCurDir(piece) == piece # <<".">>

\* Path::new(value).components() on Unix, each component by its kind: a
\* leading '/' is RootDir, a leading "." is CurDir, ".." is ParentDir, empty
\* pieces and any other "." are skipped, the rest is Normal.
components(value) ==
    LET pieces == SelectSeq(split(value, "/"), NotEmpty)
        kept == IF pieces # <<>> /\ Head(pieces) = <<".">> /\ Head(value) # "/"
                THEN <<Head(pieces)>> \o SelectSeq(Tail(pieces), NotCurDir)
                ELSE SelectSeq(pieces, NotCurDir)
        kinds == [i \in 1..Len(kept) |->
                     IF kept[i] = <<".">> THEN "CurDir"
                     ELSE IF kept[i] = <<".", ".">> THEN "ParentDir"
                     ELSE "Normal"]
    IN IF value # <<>> /\ Head(value) = "/" THEN <<"RootDir">> \o kinds ELSE kinds

\* A check of a segment that refuses only the empty one.
ensure_not_empty(value) == value # <<>>

\* fn ensure_safe_path_segment(value: &str) -> ApiResult<()>, TRUE for Ok
ensure_safe_path_segment(value) ==
    ~(\/ value = <<>>
      \/ \E i \in 1..Len(components(value)) : components(value)[i] # "Normal")

\* fn normalize_format_id(value: &str) -> String
normalize_format_id(value) ==
    [i \in 1..Len(value) |-> IF value[i] \in {"/", ":", " "} THEN "_" ELSE value[i]]

\* fn source_key(source: &VideoSource) -> Option<String>
source_key(source) ==
    IF trim(source.format_id) = <<>> THEN None
    ELSE Some(normalize_format_id(trim(source.format_id)))

\* `record.sources.iter().find(..)`: the place of the first source whose key is
\* the format, 0 if there is none.
find_source(sources, format) ==
    IF \E i \in 1..Len(sources) : source_key(sources[i]) = Some(format)
    THEN CHOOSE i \in 1..Len(sources) :
            /\ source_key(sources[i]) = Some(format)
            /\ \A j \in 1..(i - 1) : source_key(sources[j]) # Some(format)
    ELSE 0

\* The path stream_media hands to stream_file: the path the source records, or
\* <media dir>/<id>/<id>_<format>.<ext> with "mp4" for a missing ext.
media_path(source, id, format) ==
    IF source.path # None THEN source.path[1]
    ELSE <<"v", "/">> \o id \o <<"/">> \o id \o <<"_">> \o format \o <<".">>
            \o (IF source.ext # None THEN source.ext[1] ELSE <<"m", "p", "4">>)

\* The sources a record of the library can list.
Sources ==
    [format_id : {<<"1", "8">>, <<"h", "l", "s", "/", "7">>, <<" ">>},
     ext : {None, Some(<<"w", "e", "b", "m">>)},
     path : {None, Some(<<"/", "m", "/", "a", ".", "m", "p", "4">>)}]

Records == {<<>>} \cup {<<a>> : a \in Sources} \cup {<<a, b>> : a, b \in Sources}

\* GET /api/videos/{id}/streams/{format}: the two path segments, what
\* get_media finds for the id, and the file behind the path.
InitMedia ==
    /\ input \in [id : {<<"a">>, <<".", ".">>},
                  format : {<<"1", "8">>, <<"h", "l", "s", "_", "7">>, <<"4", "k">>,
                            <<>>, <<"_">>},
                  lookup : {"error", "missing", "found"},
                  sources : Records,
                  file : {"ok", "open_fails"},
                  size : {10},
                  header : {None, Some(BytesRange(<<"0">>, <<"3">>))}]
    /\ output = [pc |-> "request", size |-> 0, response |-> None,
                 path |-> <<>>, opened |-> <<>>]

\* `ensure_safe_path_segment(&id)?; ensure_safe_path_segment(&format)?;`
StreamMediaCheck ==
    /\ output.pc = "request"
    /\ IF ensure_safe_path_segment(input.id) /\ ensure_safe_path_segment(input.format)
       THEN output' = [output EXCEPT !.pc = "lookup"]
       ELSE output' = [output EXCEPT !.pc = "done",
                                     !.response = Some(not_found("file not found"))]
    /\ UNCHANGED input
    /\ UNCHANGED <<cacheVars, jobVars, fileVars>>

\* `let record = state.get_media(category, &id).await?;`
StreamMediaGetMedia ==
    /\ output.pc = "lookup"
    /\ output' = [output EXCEPT
                     !.pc = IF input.lookup = "found" THEN "find" ELSE "done",
                     !.response =
                         IF input.lookup = "missing" THEN Some(not_found("video not found"))
                         ELSE IF input.lookup = "error"
                              THEN Some([not_found("store error") EXCEPT !.status = 500])
                         ELSE None]
    /\ UNCHANGED input
    /\ UNCHANGED <<cacheVars, jobVars, fileVars>>

\* A lookup of the source that first probes the default file of the format.
StreamMediaFindProbing ==
    /\ output.pc = "find"
    /\ output' = [output EXCEPT
                     !.pc = "done",
                     !.opened = Append(@, <<"v", "/">> \o input.id),
                     !.response = Some(not_found("requested format not found"))]
    /\ UNCHANGED input
    /\ UNCHANGED <<cacheVars, jobVars, fileVars>>

\* The source is looked up by the format slug; with none the request ends in
\* not_found, else stream_file is entered with the path of the source.
StreamMediaFind ==
    /\ output.pc = "find"
    /\ IF find_source(input.sources, input.format) = 0
       THEN output' = [output EXCEPT
                          !.pc = "done",
                          !.response = Some(not_found("requested format not found"))]
       ELSE output' = [output EXCEPT
                          !.pc = "start",
                          !.path = media_path(
                                      input.sources[find_source(input.sources, input.format)],
                                      input.id, input.format)]
    /\ UNCHANGED input
    /\ UNCHANGED <<cacheVars, jobVars, fileVars>>

NextStreamMedia ==
    \/ StreamMediaCheck
    \/ StreamMediaGetMedia
    \/ StreamMediaFind
    \/ StreamFileOpen
    \/ StreamFileRespond

\* ---- the list, detail and bootstrap handlers ---------------------------------

\* A record returned as it is stored.
keep_video_record(record) == record

\* fn sanitize_video_record(record: &VideoRecord) -> VideoRecord
sanitize_video_record(record) ==
    [record EXCEPT !.sources = [i \in 1..Len(record.sources) |->
                                   [record.sources[i] EXCEPT !.path = None]]]

\* fn sanitize_video_records(records: &[VideoRecord]) -> Vec<VideoRecord>
sanitize_video_records(records) ==
    [i \in 1..Len(records) |-> sanitize_video_record(records[i])]

\* fn sanitize_subtitle_collection(collection: SubtitleCollection)
sanitize_subtitle_collection(collection) ==
    [collection EXCEPT !.languages = [i \in 1..Len(collection.languages) |->
                                         [collection.languages[i] EXCEPT !.path = None]]]

\* The sources and subtitle tracks the store holds for a record, most with the
\* path of the file on disk.
StoredSources ==
    {<<>>} \cup {<<a>> : a \in {x \in Sources : x.format_id = <<"1", "8">> /\ x.ext = None}}
           \cup {<<a, b>> : a, b \in {x \in Sources : x.format_id = <<"1", "8">> /\ x.ext = None}}

StoredTracks ==
    {<<>>,
     <<[code |-> "en", path |-> Some(<<"/", "m", "/", "a", ".", "v", "t", "t">>)]>>,
     <<[code |-> "en", path |-> None],
       [code |-> "fr", path |-> Some(<<"/", "m", "/", "a", ".", "v", "t", "t">>)]>>}

\* The library in the store: record a, record b or none, the subtitles of a;
\* an empty ApiCache.
InitLibrary ==
    /\ input \in [a : StoredSources, b : {None} \cup {Some(x) : x \in StoredSources},
                  tracks : StoredTracks]
    /\ output = [list |-> None, details |-> [i \in {"a", "b"} |-> None],
                 bootstrap |-> None, response |-> None, from |-> "none"]

\* reader.list_videos() / reader.list_shorts()
StoreList ==
    <<[videoid |-> "a", sources |-> input.a]>>
        \o (IF input.b = None THEN <<>> ELSE <<[videoid |-> "b", sources |-> input.b[1]]>>)

\* reader.get_video(id) / reader.get_short(id)
StoreGet(id) ==
    IF id = "a" THEN Some([videoid |-> "a", sources |-> input.a])
    ELSE IF input.b = None THEN None
    ELSE Some([videoid |-> "b", sources |-> input.b[1]])

\* list_videos / list_shorts: get_media_list (the cached list, else the store's
\* list, which is cached with its records), then sanitize_video_records.
list_videos ==
    /\ LET records == IF output.list # None THEN output.list[1] ELSE StoreList
       IN output' = [output EXCEPT
                        !.list = Some(records),
                        !.details = [i \in {"a", "b"} |->
                                        IF output.list = None
                                           /\ \E k \in 1..Len(records) : records[k].videoid = i
                                        THEN Some(records[CHOOSE k \in 1..Len(records) :
                                                             records[k].videoid = i])
                                        ELSE @[i]],
                        !.response = Some([videos |-> sanitize_video_records(records),
                                           tracks |-> <<>>]),
                        !.from = IF output.list # None THEN "cache" ELSE "store"]
    /\ UNCHANGED input
    /\ UNCHANGED <<cacheVars, jobVars, fileVars>>

\* get_video / get_short: get_media (the cached record, else the store's, which
\* is cached), then sanitize_video_record; an id the store does not hold is
\* answered with an error and no record.
get_video(id) ==
    /\ LET found == IF output.details[id] # None THEN output.details[id] ELSE StoreGet(id)
       IN output' = [output EXCEPT
                        !.details[id] = found,
                        !.response = IF found = None THEN None
                                     ELSE Some([videos |-> <<sanitize_video_record(found[1])>>,
                                                tracks |-> <<>>]),
                        !.from = IF output.details[id] # None THEN "cache" ELSE "store"]
    /\ UNCHANGED input
    /\ UNCHANGED <<cacheVars, jobVars, fileVars>>

\* bootstrap: get_bootstrap returns the cached payload, or builds it from the
\* store with sanitize_video_records and sanitize_subtitle_collection and
\* caches it.
bootstrap ==
    /\ LET payload ==
              IF output.bootstrap # None THEN output.bootstrap[1]
              ELSE [videos |-> sanitize_video_records(StoreList),
                    tracks |-> sanitize_subtitle_collection(
                                  [videoid |-> "a", languages |-> input.tracks]).languages]
       IN output' = [output EXCEPT
                        !.bootstrap = Some(payload),
                        !.response = Some(payload),
                        !.from = IF output.bootstrap # None THEN "cache" ELSE "store"]
    /\ UNCHANGED input
    /\ UNCHANGED <<cacheVars, jobVars, fileVars>>

NextHandlers == list_videos \/ (\E id \in {"a", "b"} : get_video(id)) \/ bootstrap

\* ---- the file routes: streams, subtitles, thumbnails -------------------------

\* Path::components() on Unix with the names kept: <<"/">> stands for RootDir.
path_components(value) ==
    LET pieces == SelectSeq(split(value, "/"), NotEmpty)
        kept == IF pieces # <<>> /\ Head(pieces) = <<".">> /\ Head(value) # "/"
                THEN <<Head(pieces)>> \o SelectSeq(Tail(pieces), NotCurDir)
                ELSE SelectSeq(pieces, NotCurDir)
    IN IF value # <<>> /\ Head(value) = "/" THEN <<<<"/">>>> \o kept ELSE kept

\* PathBuf::join: an absolute argument replaces the base.
join(base, segment) ==
    IF segment # <<>> /\ Head(segment) = "/" THEN segment
    ELSE IF base # <<>> /\ base[Len(base)] = "/" THEN base \o segment
    ELSE base \o <<"/">> \o segment

\* A prefix test on the characters of the two paths.
str_starts_with(value, prefix) ==
    /\ Len(prefix) <= Len(value)
    /\ SubSeq(value, 1, Len(prefix)) = prefix

\* Path::starts_with: the components of base are the first components of path.
starts_with(path, base) ==
    /\ Len(path_components(base)) <= Len(path_components(path))
    /\ SubSeq(path_components(path), 1, Len(path_components(base))) = path_components(base)

\* str::to_ascii_lowercase, over the letters of the extensions
to_ascii_lowercase(value) ==
    [i \in 1..Len(value) |->
        CASE value[i] = "V" -> "v"
          [] value[i] = "T" -> "t"
          [] value[i] = "S" -> "s"
          [] value[i] = "R" -> "r"
          [] OTHER -> value[i]]

\* Path::new(&name).extension(), "" when there is none
extension(name) ==
    LET pieces == split(name, ".")
    IN IF Len(pieces) < 2 \/ (Len(pieces) = 2 /\ pieces[1] = <<>>) THEN <<>>
       ELSE pieces[Len(pieces)]

\* fn subtitle_extension_rank(ext: &str) -> usize
subtitle_extension_rank(ext) ==
    LET e == to_ascii_lowercase(ext)
    IN CASE e = <<"v", "t", "t">> -> 0
         [] e = <<"s", "r", "v", "3">> -> 1
         [] e = <<"s", "r", "v", "2">> -> 2
         [] e = <<"s", "r", "v", "1">> -> 3
         [] e = <<"s", "r", "t">> -> 4
         [] e = <<"t", "t", "m", "l">> -> 5
         [] e = <<"x", "m", "l">> -> 6
         [] e = <<"a", "s", "s">> -> 7
         [] OTHER -> 10

\* state.files.subtitles and state.files.thumbnails
SubtitlesDir == <<"/", "s">>

ThumbnailsDir == <<"/", "t">>

\* find_subtitle_file: the names of the directory that start with
\* "{id}.{code}." and have a known extension; the file returned is one of the
\* best rank, the first of them in the order read_dir yields.
SubtitleCandidates(listing, id, code) ==
    {name \in listing :
        /\ str_starts_with(name, id \o <<".">> \o code \o <<".">>)
        /\ subtitle_extension_rank(extension(name)) < 10}

BestSubtitles(listing, id, code) ==
    {name \in SubtitleCandidates(listing, id, code) :
        \A other \in SubtitleCandidates(listing, id, code) :
            subtitle_extension_rank(extension(name))
                <= subtitle_extension_rank(extension(other))}

\* stream_file(path, mime, None) for a file that opens or does not.
stream_file(file, size, header) ==
    IF file \in {"open_fails", "metadata_fails"} THEN not_found("file not found")
    ELSE StreamResponse(file, size, header)

\* ApiError::internal(message) as the client gets it.
internal(message) == [not_found(message) EXCEPT !.status = 500]

\* The segments a client can put in the place of an id, a format, a subtitle
\* code or a file name (the router hands them over percent-decoded).
SegA == <<"a">>

SegEn == <<"e", "n">>

RequestIds == {SegA, <<>>, <<".", ".">>, <<".">>, <<"/", "a">>, <<"a", "/", ".", ".">>}

RequestFormats == {<<"1", "8">>, <<".", ".">>, <<>>, <<"/", "1", "8">>, <<"4", "k">>}

RequestCodes == {SegEn, <<"f", "r">>, <<".", ".">>, <<>>, <<".", "/", "e", "n">>}

RequestFiles ==
    {<<"c", ".", "j", "p", "g">>, <<>>, <<".", ".">>,
     <<".", ".", "/", "x">>, <<"/", "e", "t", "c">>, <<".">>}

\* The paths a subtitle track can record.
TrackPaths ==
    {None,
     Some(<<"/", "s", "/", "a", "/", "a", ".", "e", "n", ".", "v", "t", "t">>),
     Some(<<"/", "s", "/", "a", "/", ".", ".", "/", "b", "/", "x">>),
     Some(<<"/", "s", "/", "b", "/", "b", ".", "e", "n", ".", "v", "t", "t">>),
     Some(<<"/", "s", "/", "a", "b", "/", "x", ".", "v", "t", "t">>),
     Some(<<"/", "e", "t", "c", "/", "p", "a", "s", "s", "w", "d">>),
     Some(<<"s", "/", "a", "/", "x", ".", "v", "t", "t">>)}

\* The files a subtitles directory can hold.
SubtitleFiles ==
    {<<"a", ".", "e", "n", ".", "v", "t", "t">>,
     <<"a", ".", "e", "n", ".", "S", "R", "T">>,
     <<"a", ".", "e", "n", ".", "t", "x", "t">>,
     <<"a", ".", "e", "n", ".", "x", ".", "v", "t", "t">>,
     <<"a", ".", "f", "r", ".", "v", "t", "t">>}

StreamRequests ==
    [handler : {"stream"}, id : RequestIds, segment : RequestFormats,
     lookup : {"error", "missing", "found"},
     sources : {<<>>} \cup {<<x>> : x \in {y \in Sources : y.format_id = <<"1", "8">>}},
     tracks : {<<>>}, listing : {None}, file : {"ok", "open_fails"}]

SubtitleRequests ==
    [handler : {"subtitle"}, id : RequestIds, segment : RequestCodes,
     lookup : {"error", "missing", "found"},
     sources : {<<>>},
     tracks : {<<[code |-> SegEn, path |-> p]>> : p \in TrackPaths},
     listing : {None} \cup {Some(l) : l \in SUBSET SubtitleFiles},
     file : {"ok", "open_fails"}]

ThumbnailRequests ==
    [handler : {"thumbnail"}, id : RequestIds, segment : RequestFiles,
     lookup : {"missing"}, sources : {<<>>}, tracks : {<<>>}, listing : {None},
     file : {"ok", "open_fails"}]

\* One request to a file route: the handler, its two segments, what the store
\* holds for the id a, what the disk holds; nothing done yet.
InitRoute ==
    /\ input \in StreamRequests \cup SubtitleRequests \cup ThumbnailRequests
    /\ output = [pc |-> "request", response |-> None, log |-> <<>>]

Query(id) == [op |-> "query", path |-> id]

ReadDir(path) == [op |-> "read_dir", path |-> path]

Open(path) == [op |-> "open", path |-> path]

Done(response, log) == output' = [pc |-> "done", response |-> Some(response), log |-> log]

RouteFileSize == 4

\* stream_media: both segments are checked, get_media is asked for the record,
\* the source is looked up by the format and its file is streamed.
StreamMedia ==
    /\ output.pc = "request"
    /\ input.handler = "stream"
    /\ IF ~(ensure_safe_path_segment(input.id) /\ ensure_safe_path_segment(input.segment))
       THEN Done(not_found("file not found"), <<>>)
       ELSE IF input.lookup = "error"
       THEN Done(internal("store error"), <<Query(input.id)>>)
       ELSE IF input.lookup = "missing" \/ input.id # SegA
       THEN Done(not_found("video not found"), <<Query(input.id)>>)
       ELSE IF find_source(input.sources, input.segment) = 0
       THEN Done(not_found("requested format not found"), <<Query(input.id)>>)
       ELSE LET path == media_path(input.sources[find_source(input.sources, input.segment)],
                                   input.id, input.segment)
            IN Done(stream_file(input.file, RouteFileSize, None),
                    <<Query(input.id), Open(path)>>)
    /\ UNCHANGED input
    /\ UNCHANGED <<cacheVars, jobVars, fileVars>>

\* download_subtitle: both segments are checked, get_subtitles is asked for the
\* collection, the track is looked up by its code; a recorded path is served if
\* it has no ParentDir component and starts with <subtitles>/<id>, and without
\* a recorded path find_subtitle_file searches <subtitles>/<id>.
DownloadSubtitle ==
    /\ output.pc = "request"
    /\ input.handler = "subtitle"
    /\ LET base == join(SubtitlesDir, input.id)
           tracks == SelectSeq(input.tracks, LAMBDA t : t.code = input.segment)
       IN IF ~(ensure_safe_path_segment(input.id) /\ ensure_safe_path_segment(input.segment))
          THEN Done(not_found("file not found"), <<>>)
          ELSE IF input.lookup = "error"
          THEN Done(internal("store error"), <<Query(input.id)>>)
          ELSE IF input.lookup = "missing" \/ input.id # SegA
          THEN Done(not_found("subtitles not available"), <<Query(input.id)>>)
          ELSE IF tracks = <<>>
          THEN Done(not_found("subtitle track not found"), <<Query(input.id)>>)
          ELSE IF tracks[1].path # None
          THEN IF \/ \E i \in 1..Len(components(tracks[1].path[1])) :
                        components(tracks[1].path[1])[i] = "ParentDir"
                  \/ ~starts_with(tracks[1].path[1], base)
               THEN Done(not_found("subtitle track not found"), <<Query(input.id)>>)
               ELSE Done(stream_file(input.file, RouteFileSize, None),
                         <<Query(input.id), Open(tracks[1].path[1])>>)
          ELSE IF input.listing = None
                  \/ BestSubtitles(input.listing[1], input.id, input.segment) = {}
          THEN Done(not_found("subtitle track not found"),
                    <<Query(input.id), ReadDir(base)>>)
          ELSE \E name \in BestSubtitles(input.listing[1], input.id, input.segment) :
                  Done(stream_file(input.file, RouteFileSize, None),
                       <<Query(input.id), ReadDir(base), Open(join(base, name))>>)
    /\ UNCHANGED input
    /\ UNCHANGED <<cacheVars, jobVars, fileVars>>

\* download_thumbnail: both segments are checked and
\* <thumbnails>/<id>/<file> is streamed.
DownloadThumbnail ==
    /\ output.pc = "request"
    /\ input.handler = "thumbnail"
    /\ IF ~(ensure_safe_path_segment(input.id) /\ ensure_safe_path_segment(input.segment))
       THEN Done(not_found("file not found"), <<>>)
       ELSE Done(stream_file(input.file, RouteFileSize, None),
                 <<Open(join(join(ThumbnailsDir, input.id), input.segment))>>)
    /\ UNCHANGED input
    /\ UNCHANGED <<cacheVars, jobVars, fileVars>>

NextRoute == StreamMedia \/ DownloadSubtitle \/ DownloadThumbnail

\* ---- download_channel: entries, archive, exit status --------------------------

\* The ids a run can meet.
VideoIds == {"x", "y"}

\* A download step that records the id in the archive whatever the outcome.
download_and_archive(archive, id) ==
    IF id \in archive THEN [log |-> <<>>, archive |-> archive, failed |-> FALSE,
                            error |-> FALSE]
    ELSE [log |-> <<[op |-> "download", id |-> id, ok |-> input.download[id] = "ok"],
                    [op |-> "append", id |-> id, ok |-> TRUE]>>,
          archive |-> archive \cup {id},
          failed |-> input.download[id] # "ok", error |-> FALSE]

\* The first half of process_media_entry and of download_single_video: an id
\* of the archive is not downloaded; else download_video_all_formats runs, and
\* when it succeeded the id is appended to the archive file and inserted in
\* the set, a failed append being returned with `?`.
download_if_missing(archive, id) ==
    IF id \in archive THEN [log |-> <<>>, archive |-> archive, failed |-> FALSE,
                            error |-> FALSE]
    ELSE IF input.download[id] # "ok"
    THEN [log |-> <<[op |-> "download", id |-> id, ok |-> FALSE]>>,
          archive |-> archive, failed |-> TRUE, error |-> FALSE]
    ELSE IF input.append # "ok"
    THEN [log |-> <<[op |-> "download", id |-> id, ok |-> TRUE],
                    [op |-> "append", id |-> id, ok |-> FALSE]>>,
          archive |-> archive, failed |-> FALSE, error |-> TRUE]
    ELSE [log |-> <<[op |-> "download", id |-> id, ok |-> TRUE],
                    [op |-> "append", id |-> id, ok |-> TRUE]>>,
          archive |-> archive \cup {id}, failed |-> FALSE, error |-> FALSE]

\* refresh_metadata(..).await, as the event it leaves
refresh_metadata(id) == [op |-> "refresh", id |-> id, ok |-> input.refresh[id] = "ok"]

\* One run of download_channel: its target, the ids of the video or of the
\* channel lists, the archive file it finds, and what yt-dlp and the disk do;
\* main has loaded the archive.
InitRun ==
    /\ input \in
          [target : {"video"}, ids : {<<i>> : i \in VideoIds}, listing : {"ok"},
           archived : SUBSET VideoIds,
           download : [VideoIds -> {"ok", "fails"}],
           refresh : [VideoIds -> {"ok", "fails"}],
           append : {"ok", "fails"}]
          \cup
          [target : {"channel"},
           ids : {<<>>} \cup {<<i>> : i \in VideoIds}
                        \cup {<<i, j>> : i, j \in VideoIds},
           listing : {"ok", "fails"},
           archived : SUBSET VideoIds,
           download : [VideoIds -> {"ok", "fails"}],
           refresh : [VideoIds -> {"ok", "fails"}],
           append : {"ok", "fails"}]
    /\ output = [pc |-> "main", archive |-> input.archived, log |-> <<>>,
                 completed |-> 0, code |-> None, job |-> "Running"]

\* download_single_video and the return of main: a failed append or a failed
\* refresh is returned with `?`; a failed download is remembered, the metadata
\* is refreshed, and the function bails.
DownloadSingleVideo ==
    /\ output.pc = "main"
    /\ input.target = "video"
    /\ LET id == input.ids[1]
           media == download_if_missing(output.archive, id)
       IN output' =
             IF media.error
             THEN [output EXCEPT !.pc = "exited", !.log = media.log,
                                 !.archive = media.archive, !.code = Some(1)]
             ELSE [output EXCEPT
                      !.pc = "exited",
                      !.log = media.log \o <<refresh_metadata(id)>>,
                      !.archive = media.archive,
                      !.code = IF input.refresh[id] # "ok" \/ media.failed
                               THEN Some(1) ELSE Some(0)]
    /\ UNCHANGED input
    /\ UNCHANGED <<cacheVars, jobVars, fileVars>>

\* download_channel_entries up to the lists: a failed get_video_ids is
\* returned with `?`.
DownloadChannelEntries ==
    /\ output.pc = "main"
    /\ input.target = "channel"
    /\ output' = IF input.listing = "ok" THEN [output EXCEPT !.pc = "entries"]
                 ELSE [output EXCEPT !.pc = "exited", !.code = Some(1)]
    /\ UNCHANGED input
    /\ UNCHANGED <<cacheVars, jobVars, fileVars>>

\* A loop that stops the run at the first entry that fails.
ProcessMediaListEntryStrict ==
    /\ output.pc = "entries"
    /\ output.completed < Len(input.ids)
    /\ LET id == input.ids[output.completed + 1]
           media == download_if_missing(output.archive, id)
       IN output' =
             IF media.error \/ media.failed
             THEN [output EXCEPT !.pc = "exited", !.code = Some(1),
                                 !.log = @ \o media.log, !.archive = media.archive]
             ELSE [output EXCEPT
                      !.pc = IF input.refresh[id] = "ok" THEN "entries" ELSE "exited",
                      !.code = IF input.refresh[id] = "ok" THEN None ELSE Some(1),
                      !.log = @ \o media.log \o <<refresh_metadata(id)>>,
                      !.archive = media.archive,
                      !.completed = @ + 1]
    /\ UNCHANGED input
    /\ UNCHANGED <<cacheVars, jobVars, fileVars>>

\* One turn of the loop of process_media_list: process_media_entry, whose
\* error (a failed append) is printed, and `*completed += 1`; inside
\* process_media_entry a failed download and a failed refresh are printed.
ProcessMediaListEntry ==
    /\ output.pc = "entries"
    /\ output.completed < Len(input.ids)
    /\ LET id == input.ids[output.completed + 1]
           media == download_if_missing(output.archive, id)
       IN output' =
             [output EXCEPT
                 !.log = IF media.error THEN @ \o media.log
                         ELSE @ \o media.log \o <<refresh_metadata(id)>>,
                 !.archive = media.archive,
                 !.completed = @ + 1]
    /\ UNCHANGED input
    /\ UNCHANGED <<cacheVars, jobVars, fileVars>>

\* The lists are done (or empty): main writes "Download complete" and
\* returns Ok.
MainReturns ==
    /\ output.pc = "entries"
    /\ output.completed = Len(input.ids)
    /\ output' = [output EXCEPT !.pc = "exited", !.code = Some(0)]
    /\ UNCHANGED input
    /\ UNCHANGED <<cacheVars, jobVars, fileVars>>

\* The task of the job matches on the exit status: Success for 0, Failed else.
JobEnds ==
    /\ output.pc = "exited"
    /\ output' = [output EXCEPT !.pc = "joined",
                                !.job = IF output.code = Some(0) THEN "Success"
                                        ELSE "Failed"]
    /\ UNCHANGED input
    /\ UNCHANGED <<cacheVars, jobVars, fileVars>>

NextRun ==
    \/ DownloadSingleVideo
    \/ DownloadChannelEntries
    \/ ProcessMediaListEntry
    \/ MainReturns
    \/ JobEnds

\* ---- the instance settings: SettingsStore -------------------------------------

\* enum MissingMediaBehavior, as serde writes its variants
MissingMediaBehavior == {"not_found", "prompt"}

\* The request tasks that update the settings, one PUT each.
Updaters == {"u1", "u2"}

\* serde_json::to_vec_pretty of an InstanceSettings, byte by byte as far as the
\* two values differ.
to_vec_pretty(settings) ==
    IF settings = "not_found"
    THEN <<"{", "n", "o", "t", "_", "f", "o", "u", "n", "d", "}">>
    ELSE <<"{", "p", "r", "o", "m", "p", "t", "}">>

\* serde_json::from_str::<InstanceSettings> of the bytes of a file
settings_from_str(raw) ==
    IF \E v \in MissingMediaBehavior : raw = to_vec_pretty(v)
    THEN Some(CHOOSE v \in MissingMediaBehavior : raw = to_vec_pretty(v))
    ELSE None

\* write_all of a payload at offset 0 of an open file: bytes beyond the
\* payload stay.
write_all(content, payload) ==
    payload \o SubSeq(content, Len(payload) + 1, Len(content))

\* The settings file as the updaters find it; 0 is a name that is not there.
SettingsOnDisk ==
    IF output.names.file = 0 THEN None
    ELSE settings_from_str(output.inodes[output.names.file])

\* SettingsStore::load: the file if it is there and parses, else the defaults
\* of InstanceSettings::from_env. No update has been asked for.
InitSettingsStore ==
    /\ input \in [defaults : MissingMediaBehavior,
                  stored : {None} \cup {Some(v) : v \in MissingMediaBehavior}]
    /\ output = [current |-> IF input.stored = None THEN input.defaults
                             ELSE input.stored[1],
                 names |-> [file |-> IF input.stored = None THEN 0 ELSE 1, tmp |-> 0],
                 inodes |-> IF input.stored = None THEN <<>>
                            ELSE <<to_vec_pretty(input.stored[1])>>,
                 pc |-> [u \in Updaters |-> "idle"],
                 settings |-> [u \in Updaters |-> None],
                 fd |-> [u \in Updaters |-> 0],
                 result |-> [u \in Updaters |-> None]]

\* update_settings is entered with a payload and calls SettingsStore::update,
\* which calls write_json_atomic.
UpdateSettings(u, payload) ==
    /\ output.pc[u] = "idle"
    /\ output.result[u] = None
    /\ output' = [output EXCEPT !.pc[u] = "open", !.settings[u] = Some(payload)]
    /\ UNCHANGED input
    /\ UNCHANGED <<cacheVars, jobVars, fileVars>>

\* `fs::write(&tmp_path, payload)`, the open: the temporary file is created,
\* or truncated if the name is there.
WriteJsonAtomicOpen(u) ==
    /\ output.pc[u] = "open"
    /\ output' =
          IF output.names.tmp = 0
          THEN [output EXCEPT !.inodes = Append(@, <<>>),
                              !.names.tmp = Len(output.inodes) + 1,
                              !.fd[u] = Len(output.inodes) + 1,
                              !.pc[u] = "write"]
          ELSE [output EXCEPT !.inodes[output.names.tmp] = <<>>,
                              !.fd[u] = output.names.tmp,
                              !.pc[u] = "write"]
    /\ UNCHANGED input
    /\ UNCHANGED <<cacheVars, jobVars, fileVars>>

\* `fs::write(&tmp_path, payload)`, the write through the open descriptor.
WriteJsonAtomicWrite(u) ==
    /\ output.pc[u] = "write"
    /\ output' = [output EXCEPT
                     !.inodes[output.fd[u]] =
                         write_all(@, to_vec_pretty(output.settings[u][1])),
                     !.fd[u] = 0,
                     !.pc[u] = "rename"]
    /\ UNCHANGED input
    /\ UNCHANGED <<cacheVars, jobVars, fileVars>>

\* `fs::rename(&tmp_path, path)?`: the name of the temporary file becomes the
\* name of the settings file; if the name is gone the error is returned, and
\* update_settings answers with an internal error.
WriteJsonAtomicRename(u) ==
    /\ output.pc[u] = "rename"
    /\ output' =
          IF output.names.tmp = 0
          THEN [output EXCEPT !.pc[u] = "idle", !.result[u] = Some("error")]
          ELSE [output EXCEPT !.names.file = output.names.tmp,
                              !.names.tmp = 0,
                              !.pc[u] = "store"]
    /\ UNCHANGED input
    /\ UNCHANGED <<cacheVars, jobVars, fileVars>>

\* `fs::write(&tmp_path, payload)?` fails at the open (a full or read-only
\* disk): update returns the error before it touches `current`.
WriteJsonAtomicFails(u) ==
    /\ output.pc[u] = "open"
    /\ output' = [output EXCEPT !.pc[u] = "idle", !.result[u] = Some("error")]
    /\ UNCHANGED input
    /\ UNCHANGED <<cacheVars, jobVars, fileVars>>

\* `*self.current.write() = settings.clone(); Ok(settings)`
UpdateStore(u) ==
    /\ output.pc[u] = "store"
    /\ output' = [output EXCEPT !.current = output.settings[u][1],
                                !.pc[u] = "idle",
                                !.result[u] = Some("ok")]
    /\ UNCHANGED input
    /\ UNCHANGED <<cacheVars, jobVars, fileVars>>

NextSettings ==
    \/ \E u \in Updaters, payload \in MissingMediaBehavior : UpdateSettings(u, payload)
    \/ \E u \in Updaters : WriteJsonAtomicOpen(u)
    \/ \E u \in Updaters : WriteJsonAtomicWrite(u)
    \/ \E u \in Updaters : WriteJsonAtomicRename(u)
    \/ \E u \in Updaters : WriteJsonAtomicFails(u)
    \/ \E u \in Updaters : UpdateStore(u)

\* ---- specification of the download manager ------------------------------------

\* DownloadManager::new: the downloader binary is looked up once.
DownloadManagerNew ==
    /\ binary \in BOOLEAN
    /\ downloader = find_download_channel_executable
    /\ counter = CounterStart
    /\ jobs = [k \in {} |-> NoCall]
    /\ handed = <<>>
    /\ returned = <<>>

InitJobs ==
    /\ DownloadManagerNew
    /\ fsWritable \in BOOLEAN
    /\ files = [f \in ProgressPaths |-> None]
    /\ call = [c \in Callers |-> NoCall]
    /\ task = [n \in JobNumbers |-> NoTask]
    /\ dl = [n \in JobNumbers |-> NoDl]
    /\ poll = NoPoll
    /\ polled = None

\* The download manager at rest, for the specifications of the cache.
JobsIdle ==
    /\ InitJobs
    /\ downloader
    /\ fsWritable

\* The cache at rest, for the specification of the download manager.
CacheIdle ==
    /\ InitCache
    /\ store = EmptyStore

NextJobs ==
    \/ \E c \in Callers, kind \in {"video", "channel"} : NextJobId(c, kind)
    \/ \E c \in Callers, kind \in {"video", "channel"} : StartRefused(c, kind)
    \/ \E c \in Callers : StartWriteProgress(c)
    \/ \E c \in Callers : StartInsert(c)
    \/ \E c \in Callers : StartSpawn(c)
    \/ \E n \in JobNumbers : TaskRunning(n)
    \/ \E n \in JobNumbers, ok \in BOOLEAN : TaskResolve(n, ok)
    \/ \E n \in JobNumbers, launched \in BOOLEAN : TaskLaunch(n, launched)
    \/ \E n \in JobNumbers : DlWrite(n)
    \/ \E n \in JobNumbers, code \in {0, 1} : DlExit(n, code)
    \/ \E n \in JobNumbers : TaskJoin(n)
    \/ \E n \in JobNumbers : TaskSuccess(n)
    \/ \E n \in JobNumbers : TaskFailWrite(n)
    \/ \E n \in JobNumbers : TaskFailStatus(n)
    \/ InstallBinary

\* The backend at start-up, the library empty and unread.
InitDownloads == InitJobs /\ CacheIdle /\ AuxIdle

SpecJobs == InitDownloads /\ [][NextJobs]_vars

\* One job's progress file with its two writers and a reader, the cache and
\* the job table at rest.
InitFile == CacheIdle /\ JobsIdle /\ FileIdle /\ FnIdle

SpecFile == InitFile /\ [][NextFile]_vars

\* The progress value computed and written for one channel, all else at rest.
InitPercent == CacheIdle /\ JobsIdle /\ FileIdle /\ InitProgress

SpecProgress == InitPercent /\ [][NextProgress]_vars

\* One request served by stream_file, all else at rest.
InitStreamFile == CacheIdle /\ JobsIdle /\ FileIdle /\ InitStream

SpecStream == InitStreamFile /\ [][NextStream]_vars

\* One request served by stream_media, all else at rest.
InitStreamMedia == CacheIdle /\ JobsIdle /\ FileIdle /\ InitMedia

SpecStreamMedia == InitStreamMedia /\ [][NextStreamMedia]_vars

\* The list, detail and bootstrap handlers over one library, all else at rest.
InitHandlers == CacheIdle /\ JobsIdle /\ FileIdle /\ InitLibrary

SpecHandlers == InitHandlers /\ [][NextHandlers]_vars

\* One request to a stream, subtitle or thumbnail route, all else at rest.
InitRoutes == CacheIdle /\ JobsIdle /\ FileIdle /\ InitRoute

SpecRoutes == InitRoutes /\ [][NextRoute]_vars

\* One run of download_channel for one job, all else at rest.
InitDownloader == CacheIdle /\ JobsIdle /\ FileIdle /\ InitRun

SpecRun == InitDownloader /\ [][NextRun]_vars

\* The settings store under concurrent updates, all else at rest.
InitSettings == CacheIdle /\ JobsIdle /\ FileIdle /\ InitSettingsStore

SpecSettings == InitSettings /\ [][NextSettings]_vars

\* The same with a downloads directory that can be written: every
\* write_json_atomic and every ProgressWriter::write succeeds.
InitDisk == InitDownloads /\ fsWritable

SpecJobsDisk == InitDisk /\ [][NextJobs]_vars

\* The download manager with a client polling GET /api/downloads/{id}.
NextStatus ==
    \/ NextJobs
    \/ \E id \in PollIds : GetStatusLock(id)
    \/ GetStatusRead

SpecStatus == InitDownloads /\ [][NextStatus]_vars

SpecStatusDisk == InitDisk /\ [][NextStatus]_vars

\* The same, with the progress file of the first job removed or garbled by
\* something else than the backend and its downloader.
Damage == \E content \in {None, Some([raw |-> "{"])} : DamageFile(CounterStart, content)

NextDamaged == NextStatus \/ Damage

SpecDamaged == InitDownloads /\ [][NextDamaged]_vars

\* The steps of the task spawned for job n, which the runtime keeps polling
\* until the task returns.
TaskStep(n) ==
    \/ TaskRunning(n)
    \/ \E ok \in BOOLEAN : TaskResolve(n, ok)
    \/ \E launched \in BOOLEAN : TaskLaunch(n, launched)
    \/ TaskJoin(n)
    \/ TaskSuccess(n)
    \/ TaskFailWrite(n)
    \/ TaskFailStatus(n)

\* The steps of the downloader started for job n.
DlRun(n) == DlWrite(n) \/ \E code \in {0, 1} : DlExit(n, code)

\* A start call that has taken its id runs to its return.
StartStep(c) == StartWriteProgress(c) \/ StartInsert(c) \/ StartSpawn(c)

\* The runtime runs every spawned task and every handler to its end, and a
\* downloader that was started terminates.
FairJobs ==
    /\ \A n \in JobNumbers : WF_vars(TaskStep(n)) /\ WF_vars(DlRun(n))
    /\ \A c \in Callers : WF_vars(StartStep(c))

\* A client that keeps polling every id, each get_status running to its end.
FairPolls ==
    /\ \A id \in PollIds : SF_vars(GetStatusLock(id))
    /\ WF_vars(GetStatusRead)

FairSpecJobs == SpecJobs /\ FairJobs

FairSpecStatusDisk == SpecStatusDisk /\ FairJobs /\ FairPolls

\* ---------------------------------------------------------------------------
\* Steps and specifications of the cache
\* ---------------------------------------------------------------------------

Step(r) ==
    \/ EnsureFreshCache(r)
    \/ GetBootstrapLookup(r)
    \/ GetBootstrapQuery(r)
    \/ GetBootstrapPopulate(r)
    \/ GetMediaListLookup(r)
    \/ GetMediaListQuery(r)
    \/ GetMediaListReplace(r)
    \/ GetMediaListFill(r)
    \/ GetMediaLookup(r)
    \/ GetMediaQuery(r)
    \/ GetMediaInsert(r)
    \/ GetCommentsLookup(r)
    \/ GetCommentsQuery(r)
    \/ GetCommentsInsert(r)
    \/ GetSubtitlesLookup(r)
    \/ GetSubtitlesQuery(r)
    \/ GetSubtitlesInsert(r)

Write == \E t \in Tables, i \in Ids : StoreWrite(t, i)

\* Requests arrive one after another: a request is issued only when no other
\* request is in flight; commits to the store fall anywhere.
BeginAlone == \E o \in Ops : DataVersion("r1", o)

Next ==
    \/ BeginAlone
    \/ Step("r1")
    \/ Write

\* The backend at start-up, the download manager unused.
Init == InitCache /\ JobsIdle /\ AuxIdle

Spec == Init /\ [][Next]_vars

\* Requests overlap: both request tasks run on the multi-threaded runtime.
BeginAny == \E r \in Readers, o \in Ops : DataVersion(r, o)

NextConc ==
    \/ BeginAny
    \/ \E r \in Readers : Step(r)
    \/ Write

SpecConc == Init /\ [][NextConc]_vars

\* Requests one after another over a store whose calls can fail.
BeginFails == \E o \in Ops : DataVersionFails("r1", o)

NextFaulty ==
    \/ BeginAlone
    \/ BeginFails
    \/ Step("r1")
    \/ QueryFails("r1")
    \/ Write

SpecFaulty == Init /\ [][NextFaulty]_vars

\* ---------------------------------------------------------------------------
\* Properties of the cache
\* ---------------------------------------------------------------------------

BootstrapFields == {"videos", "shorts", "subtitles", "comments"}

\* Answers the store gave to operation o at counter values lo..hi.
AnswersBetween(o, lo, hi) ==
    {StoreAnswer(o, storeLog[v + 1]) : v \in lo..hi}

\* A returned value is one the store held at some point between the moment the
\* request was issued and the moment it returned (field by field for the
\* bootstrap composite, whose four queries are separate).
Fresh(x) ==
    IF x.op.kind = "bootstrap"
    THEN \A f \in BootstrapFields :
            \E a \in AnswersBetween(x.op, x.issued, x.returned) : x.res[f] = a[f]
    ELSE x.res \in AnswersBetween(x.op, x.issued, x.returned)

\* A result in the shape of the cache slot it is stored in.
ResAsSlot(x) ==
    IF x.op.kind \in {"media", "subtitles"} THEN x.res ELSE Some(x.res)

\* C1: with requests issued one after another and commits falling anywhere,
\* every request - so also the first one issued after a change of the counter
\* - returns what the store held at or after the moment it was issued, never
\* rows that were cached before.
C1_NoStaleWindow ==
    \A r \in Readers : ret[r] # None => Fresh(ret[r][1])

\* C1 witness: a request whose freshness check saw a changed counter, whose
\* slot was filled before that check, returned a value unlike the dropped one.
C1_Witness ==
    \E r \in Readers :
        /\ ret[r] # None
        /\ ret[r][1].changed
        /\ ret[r][1].old # None
        /\ ResAsSlot(ret[r][1]) # ret[r][1].old
        /\ ret[r][1].res = StoreAnswer(ret[r][1].op, store)

\* The values a slot of operation o may hold when the recorded counter value
\* is `from`: what the store answered at that value or later.
SlotValid(o, slot, from) ==
    LET answers == AnswersBetween(o, from, dbVersion)
    IN CASE o.kind = "bootstrap" ->
               \A f \in BootstrapFields : \E a \in answers : slot[1][f] = a[f]
         [] o.kind \in {"list", "comments"} -> slot[1] \in answers
         [] OTHER -> slot \in answers

\* C2: the snapshot is empty or holds only values the store held at the
\* recorded counter value or later: no slot is filled with rows read before
\* the change for which the snapshot was cleared.
C2_NoStalePopulate ==
    \A o \in Ops :
        CacheSlot(o, cache) # None =>
            /\ last_db_version # None
            /\ SlotValid(o, CacheSlot(o, cache), last_db_version[1])

\* C3: a request issued and returned with no commit in between returns what
\* the first such request of the same operation returned.
C3_RepeatableReads ==
    \A r \in Readers :
        (ret[r] # None /\ ret[r][1].issued = dbVersion)
            => epochRes[ret[r][1].op] = Some(ret[r][1].res)

\* C3 witness: a cache hit returned the value first fetched from the store.
C3_Witness ==
    \E r \in Readers :
        /\ ret[r] # None
        /\ ret[r][1].hit
        /\ ret[r][1].issued = dbVersion
        /\ ResAsSlot(ret[r][1]) # None
        /\ epochRes[ret[r][1].op] = Some(ret[r][1].res)

\* C4: media and subtitles report a missing row as absent and leave the slot
\* of that id empty; no slot ever holds an "absent" marker; the request that
\* follows an absent answer queries the store again; and a row that existed
\* during the whole request is returned.
C4_NoNegativeCaching ==
    /\ \A c \in Categories, i \in Ids :
            cache[media_details(c)][i] # Some(None)
    /\ \A i \in Ids : cache.subtitles[i] # Some(None)
    /\ \A r \in Readers :
          (ret[r] # None /\ ret[r][1].op.kind \in {"media", "subtitles"}) =>
             LET x == ret[r][1]
             IN /\ x.res = None => (~x.hit /\ x.after = None)
                /\ x.prevNone => ~x.hit
                /\ None \notin AnswersBetween(x.op, x.issued, x.returned)
                      => x.res # None

\* C4 witness: the request after an absent answer returned the row that a
\* commit added in the meantime.
C4_Witness ==
    \E r \in Readers :
        /\ ret[r] # None
        /\ ret[r][1].op.kind \in {"media", "subtitles"}
        /\ ret[r][1].prevNone
        /\ ret[r][1].res # None

\* C5: once the freshness check of any operation has seen a counter value
\* other than the recorded one, the whole snapshot is empty and the new value
\* is recorded when the operation comes to its lookup.
C5_ClearIsTotal ==
    \A r \in Readers :
        /\ (rpc[r] = "lookup" /\ raux[r].changed) => cache = ApiCacheNew
        /\ rpc[r] = "lookup" => last_db_version = Some(rver[r])

\* C5 witness: a comments request saw the change and the filled slot of
\* another operation was emptied with it.
C5_Witness ==
    \E r \in Readers :
        /\ rpc[r] = "lookup"
        /\ rop[r].kind = "comments"
        /\ raux[r].changed
        /\ raux[r].dropped
        /\ cache = ApiCacheNew

\* C6: a list returned on a miss leaves every row of the list in the detail
\* index, and a media request for a listed id, when no commit fell between the
\* list's counter read and its own, is a cache hit that returns the listed row.
C6_ListBackFillsDetails ==
    \A r \in Readers :
        ret[r] # None =>
            LET x == ret[r][1]
            IN /\ (x.op.kind = "list" /\ ~x.hit) =>
                     \A rec \in x.res : x.after[rec[1]] = Some(rec)
               /\ (x.op.kind = "media" /\ x.listedRec # None) =>
                     (x.hit /\ x.res = x.listedRec)

\* C6 witness: a media request answered from the index a list had filled.
C6_Witness ==
    \E r \in Readers :
        /\ ret[r] # None
        /\ ret[r][1].op.kind = "media"
        /\ ret[r][1].listedRec # None
        /\ ret[r][1].hit
        /\ ret[r][1].res = ret[r][1].listedRec

\* ---------------------------------------------------------------------------
\* Properties of the download manager
\* ---------------------------------------------------------------------------

\* The ids start_*_download returned (refused calls return an error instead).
ReturnedIds == {i \in 1..Len(returned) : returned[i] # "error"}

\* Calls that hold a job id and have not returned it yet.
InFlight == {c \in Callers : call[c].pc # "idle"}

\* C7: every id returned to a caller is download-{n} for an n the counter
\* handed out; the counter starts at 1 and goes up by exactly one per id, so
\* the k-th id handed out carries n = k; no two calls, returned or still in
\* flight, hold the same id.
C7_JobIdsUnique ==
    /\ counter = 1 + Len(handed)
    /\ \A k \in 1..Len(handed) : handed[k] = k
    /\ \A i \in ReturnedIds :
          /\ \E k \in 1..Len(handed) : returned[i] = JobId(handed[k])
          /\ \A j \in ReturnedIds : i # j => returned[i] # returned[j]
          /\ \A c \in InFlight : returned[i] # JobId(call[c].n)
    /\ \A c1, c2 \in InFlight : c1 # c2 => JobId(call[c1].n) # JobId(call[c2].n)

\* Two concurrent start calls have returned, the later id first.
C7_Witness == returned = <<JobId(2), JobId(1)>>

\* The status changes a job may make.
StatusEdges ==
    {<<"Queued", "Running">>, <<"Running", "Success">>, <<"Running", "Failed">>}

\* C8: in every step a job stays in the table and its status either stays as
\* it is or moves Queued -> Running, Running -> Success or Running -> Failed;
\* nothing leaves Success or Failed and nothing goes backward.
C8_StatusMonotonic ==
    [][\A id \in DOMAIN jobs :
          /\ id \in DOMAIN jobs'
          /\ jobs'[id].status # jobs[id].status
                => <<jobs[id].status, jobs'[id].status>> \in StatusEdges]_vars

\* One job has ended in Success and another in Failed.
C8_Witness ==
    \E a, b \in DOMAIN jobs :
        jobs[a].status = "Success" /\ jobs[b].status = "Failed"

\* Jobs started by start_channel_download whose task exists.
ChannelJobs ==
    {n \in JobNumbers :
        task[n].pc # "none" /\ task[n].kind = "channel" /\ JobId(n) \in DOMAIN jobs}

\* C9 as stated: a channel job is Running only once its channel url has been
\* resolved, and a job whose resolution failed is never Running.
C9_RunningOnlyAfterResolution ==
    \A n \in ChannelJobs :
        /\ jobs[JobId(n)].status = "Running" => task[n].resolved = "ok"
        /\ task[n].resolved = "failed" => jobs[JobId(n)].status # "Running"

\* C9: a channel job is marked Running, with the message "Resolving channel",
\* when its task starts and before the resolution step is over; the
\* downloader is started only once resolution has succeeded; when resolution
\* fails the job goes from Running to Failed and the downloader is never
\* started for it.
C9_DownloaderOnlyAfterResolution ==
    \A n \in ChannelJobs :
        /\ task[n].pc = "resolve"
              => /\ jobs[JobId(n)].status = "Running"
                 /\ jobs[JobId(n)].message = "Resolving channel"
        /\ dl[n].pc # "none" => task[n].resolved = "ok"
        /\ task[n].resolved = "failed"
              => /\ dl[n].pc = "none"
                 /\ jobs[JobId(n)].status \in {"Running", "Failed"}

\* A channel job has failed in the resolution step, no downloader started.
C9_Witness ==
    \E n \in ChannelJobs :
        /\ task[n].resolved = "failed"
        /\ jobs[JobId(n)].status = "Failed"
        /\ dl[n].pc = "none"

\* C10 as stated: the status and the message get_status returns are those of
\* the job record it cloned under the lock.
C10_StatusAndMessageFromRecord ==
    (polled # None /\ polled[1].found)
        => /\ polled[1].status = as_str(polled[1].job.status)
           /\ polled[1].message = polled[1].job.message

\* C10: the status get_status returns is that of the job record it cloned
\* under the lock; the message is the progress file's whenever that file can
\* be read, and the job record's only when it cannot.
C10_StatusFromRecordMessageFromFile ==
    (polled # None /\ polled[1].found)
        => /\ polled[1].status = as_str(polled[1].job.status)
           /\ polled[1].report # None
                 => polled[1].message = polled[1].report[1].message
           /\ polled[1].report = None
                 => polled[1].message = polled[1].job.message

\* get_status has answered for a job whose progress file carries another
\* message than its record.
C10_Witness ==
    /\ polled # None
    /\ polled[1].found
    /\ polled[1].report # None
    /\ polled[1].report[1].message # polled[1].job.message
    /\ polled[1].message = polled[1].report[1].message

\* The progress file of the job get_status has just answered for.
PolledFile == files[polled[1].job.progress_file]

\* get_status has just answered with a status record.
PolledFound == polled # None /\ polled[1].found

\* C11: whenever get_status answers for a known job whose progress file can
\* be read, the progress in the answer is the progress the file holds at that
\* moment, whoever wrote it last.
C11_ProgressFromFile ==
    (PolledFound /\ PolledFile # None)
        => polled[1].progress = PolledFile[1].progress

\* get_status reports the 20 the downloader wrote, while the task that owns
\* the job is waiting for the downloader and has written nothing since 0.
C11_Witness ==
    /\ PolledFound
    /\ polled[1].progress = 20
    /\ \E n \in JobNumbers :
          /\ JobId(n) = polled[1].id
          /\ task[n].pc = "wait"
          /\ dl[n].pc = "running"

\* The progress file of job number n.
FileOf(n) == files[progress_file_path(JobId(n))]

\* Job numbers whose job is in the table.
Known == {n \in JobNumbers : JobId(n) \in DOMAIN jobs}

PolledCompleted(n) ==
    /\ PolledFound
    /\ polled[1].id = JobId(n)
    /\ polled[1].status = "completed"
    /\ polled[1].progress = 100

AtTheEnd(n) ==
    \/ dl[n].phase \in {"complete", "end"}
    \/ task[n].pc \in {"fail_status", "done"}

C15_NoDownloaderNoJobs ==
    ~downloader
        => /\ counter = CounterStart
           /\ handed = <<>>
           /\ DOMAIN jobs = {}
           /\ \A f \in ProgressPaths : files[f] = None
           /\ \A i \in 1..Len(returned) : returned[i] = "error"
           /\ \A c \in Callers : call[c] = NoCall
           /\ \A n \in JobNumbers : task[n] = NoTask /\ dl[n] = NoDl

\* Start calls were refused, and the executable is there by now.
C15_Witness ==
    /\ ~downloader
    /\ binary
    /\ returned = [i \in 1..MaxJobs |-> "error"]

\* Ids a start call has returned, or holds past the insert and returns in its
\* next step.
Issued ==
    {returned[i] : i \in ReturnedIds}
        \cup {JobId(call[c].n) : c \in {d \in Callers : call[d].pc = "spawn"}}

\* C16: the job table holds exactly the ids start calls return; get_status
\* answers not-found exactly for the other ids, is back at rest when it has
\* answered so, and the step that answers not-found leaves the job table, the
\* counter and every progress file as they were.
C16_UnknownIdNotFound ==
    /\ [](DOMAIN jobs = Issued)
    /\ [](polled # None => (polled[1].found <=> polled[1].id \in Issued))
    /\ []((polled # None /\ ~polled[1].found) => poll = NoPoll)
    /\ [][(polled' # None /\ ~polled'[1].found)
              => /\ jobs' = jobs
                 /\ files' = files
                 /\ counter' = counter
                 /\ task' = task]_vars

\* get_status has answered not-found for download-2 while download-1 is in
\* the table and download-2 is taken from the counter but not entered yet.
C16_Witness ==
    /\ polled = Some([id |-> JobId(2), found |-> FALSE])
    /\ DOMAIN jobs = {JobId(1)}
    /\ Len(handed) = 2

\* The job of number n is in the table with a terminal status.
Terminal(n) ==
    /\ JobId(n) \in DOMAIN jobs
    /\ jobs[JobId(n)].status \in {"Success", "Failed"}

\* C17: when tasks are scheduled, the resolution step returns and a started
\* downloader exits, every job in the table leads to Success or Failed, and
\* every id a start call took from the counter leads to such a job; a job
\* that is terminal stays in the table and stays terminal.
C17_EveryJobTerminates ==
    /\ \A n \in JobNumbers : (JobId(n) \in DOMAIN jobs) ~> Terminal(n)
    /\ \A n \in JobNumbers : (\E c \in Callers : call[c].pc # "idle" /\ call[c].n = n)
                                 ~> Terminal(n)
    /\ \A n \in JobNumbers : [](Terminal(n) => []Terminal(n))

\* Both jobs have ended, a channel job as Success after the listing and a job
\* as Failed, whatever the downloads directory allows.
C17_Witness ==
    /\ Terminal(1) /\ Terminal(2)
    /\ \E n \in JobNumbers : jobs[JobId(n)].status = "Success" /\ task[n].kind = "channel"
    /\ \E n \in JobNumbers : jobs[JobId(n)].status = "Failed"
    /\ \A n \in JobNumbers : task[n].pc = "done"

\* The downloader of job n is started in this step.
Invoked(n) == dl[n].pc # "running" /\ dl'[n].pc = "running"

\* C18: a downloader is started only for a job that is Running, whose id a
\* start call has returned and whose downloader was never started before;
\* once started, a downloader never returns to the not-started state, so each
\* job has at most one invocation. A Failed job has its task at its end, and
\* no step changes its record, its task or its downloader any more.
C18_AtMostOneInvocation ==
    /\ [][\A n \in JobNumbers :
             /\ Invoked(n) => /\ dl[n].pc = "none"
                              /\ JobId(n) \in {returned[i] : i \in ReturnedIds}
                              /\ jobs[JobId(n)].status = "Running"
             /\ dl[n].pc # "none" => dl'[n].pc # "none"
             /\ (JobId(n) \in DOMAIN jobs /\ jobs[JobId(n)].status = "Failed")
                   => /\ jobs'[JobId(n)] = jobs[JobId(n)]
                      /\ task'[n] = task[n]
                      /\ dl'[n] = dl[n]]_vars
    /\ [](\A n \in Known :
             jobs[JobId(n)].status = "Failed"
                 => task[n].pc = "done" /\ dl[n].pc \in {"none", "exited"})

\* download-1 is Failed after its downloader exited with a failure, and the
\* downloader of download-2 is running.
C18_Witness ==
    /\ Terminal(1)
    /\ jobs[JobId(1)].status = "Failed"
    /\ dl[1].pc = "exited"
    /\ dl[2].pc = "running"

\* The task of job n has a step to take that is not the wait for its own
\* downloader's exit.
TaskPending(n) ==
    /\ task[n].pc \notin {"none", "done"}
    /\ ~(task[n].pc = "wait" /\ dl[n].pc = "running")

\* C19: while any downloader is running, nothing else waits for it: every
\* other task with a step to take can take it, a task waiting only for its own
\* downloader; every running downloader can go on; every start call can take
\* its next step and a new one can begin; and get_status can take its lock
\* step for any id and its read step. No step needs the job table to be free
\* of running jobs.
C19_NothingWaitsForASubprocess ==
    (\E r \in JobNumbers : dl[r].pc = "running")
        => /\ \A n \in JobNumbers : TaskPending(n) => ENABLED TaskStep(n)
           /\ \A n \in JobNumbers : dl[n].pc = "running" => ENABLED DlRun(n)
           /\ \A c \in Callers : call[c].pc # "idle" => ENABLED StartStep(c)
           /\ \A c \in Callers :
                 (call[c].pc = "idle" /\ Len(handed) < MaxJobs)
                     => ENABLED NextJobId(c, "channel")
           /\ poll.pc = "idle" => \A id \in PollIds : ENABLED GetStatusLock(id)
           /\ poll.pc = "read" => ENABLED GetStatusRead

\* The downloader of download-1 is still running; download-2, created after
\* it, has been Running and is Success, and get_status has just said so.
C19_Witness ==
    /\ dl[1].pc = "running"
    /\ jobs[JobId(1)].status = "Running"
    /\ Terminal(2)
    /\ jobs[JobId(2)].status = "Success"
    /\ PolledFound
    /\ polled[1].id = JobId(2)
    /\ polled[1].status = "completed"

\* C20: no step takes an id out of the job table; a record in the table keeps
\* its id and its progress file path, and changes only in a step of the task
\* spawned for that job; every id a start call has returned is in the table;
\* and get_status, whenever it answers for such an id, answers with a status
\* record, terminal jobs included.
C20_TableOnlyGrows ==
    /\ [][\A id \in DOMAIN jobs :
             /\ id \in DOMAIN jobs'
             /\ jobs'[id].id = jobs[id].id
             /\ jobs'[id].progress_file = jobs[id].progress_file
             /\ jobs'[id] # jobs[id]
                   => \E n \in JobNumbers : id = JobId(n) /\ TaskStep(n)]_vars
    /\ [](\A i \in ReturnedIds : returned[i] \in DOMAIN jobs)
    /\ []((polled # None /\ polled[1].id \in {returned[i] : i \in ReturnedIds})
              => /\ polled[1].found
                 /\ polled[1].job.id = polled[1].id)

\* Both jobs have ended, and get_status answers for download-1, which is
\* Failed, with a record.
C20_Witness ==
    /\ Terminal(1) /\ Terminal(2)
    /\ PolledFound
    /\ polled[1].id = JobId(1)
    /\ polled[1].status = "failed"
    /\ jobs[JobId(2)].status = "Success"

\* The payloads a single write produces.
Payloads == {to_vec(r) : r \in OrchestratorReports \cup DownloaderReports}

\* C21: whatever the writers are doing, the name of the progress file leads to
\* no file or to a file holding the whole payload of one write, and every
\* read that found a file has read the whole payload of one write and parsed
\* the report of that write.
C21_ReadsSeeWholeReports ==
    /\ dir[progress_file_path(TheJob)] # 0
          => inodes[dir[progress_file_path(TheJob)]] \in Payloads
    /\ (seen # None /\ seen[1].file)
          => /\ seen[1].raw \in Payloads
             /\ seen[1].report # None
             /\ to_vec(seen[1].report[1]) = seen[1].raw

\* A read opened the file holding the queued report and finished after the
\* downloader had replaced the file and begun filling the next temporary file.
C21_Witness ==
    /\ seen # None /\ seen[1].file
    /\ seen[1].report = Some(ProgressReport(0, "Queued download"))
    /\ dir[progress_file_path(TheJob)] # 0
    /\ inodes[dir[progress_file_path(TheJob)]] = to_vec(ProgressReport(5, "Preparing download"))
    /\ pw["downloader"].pc = "write"
    /\ pw["downloader"].off = 2

\* C22: the progress in every report written is in 0..100 and so is the
\* progress get_status answers; an argument above 100 is written as 100; the
\* entries counted never exceed the total, and the percentage of the loop is
\* completed*100/total itself, at most 100, the same before and after it is
\* narrowed to 8 bits.
C22_ProgressWithin0To100 ==
    /\ output.completed <= output.total
    /\ (output.completed * 100) \div (IF output.total = 0 THEN 1 ELSE output.total) <= 100
    /\ output.report # None
          => /\ output.report[1].progress \in 0..100
             /\ output.report[1].message = "written"
                   => output.report[1].progress
                         = (IF input.progress > 100 THEN 100 ELSE input.progress)
             /\ output.report[1].message = "Downloading"
                   => output.report[1].progress
                         = (output.completed * 100) \div output.total
    /\ output.status # None => output.status[1] \in 0..100

\* The last of eleven entries was counted after a write of 255 had been
\* clamped, and get_status answers 100.
C22_Witness ==
    /\ input.progress = 255
    /\ output.total = 11
    /\ output.completed = 11
    /\ output.report = Some(ProgressReport(100, "Downloading"))
    /\ output.status = Some(100)

\* stream_file has answered a request for a file it could open.
Answered == output.pc = "done" /\ input.file = "ok"

Response == output.response[1]

\* The numbers of the headers that a u64 holds.
Fits == {n \in Nums : n <= U64Max}

\* C23 as stated: every header bytes=a-b and bytes=a- whose start is at or
\* beyond the size of the file is answered 416 with Content-Range
\* bytes */size and an empty body.
C23_StartBeyondSizeIs416 ==
    \A a \in Fits :
        (/\ Answered
         /\ a >= input.size
         /\ \/ input.header = Some(BytesRange(Digits(a), <<>>))
            \/ \E b \in Fits : b >= a /\ input.header = Some(BytesRange(Digits(a), Digits(b))))
            => /\ Response.status = 416
               /\ Response.content_range = Some("bytes */" \o ToString(input.size))
               /\ Response.body = <<>>

\* The 206 response that carries the bytes first..last of the file.
Partial(first, last) ==
    [status |-> 206,
     content_range |-> Some("bytes " \o ToString(first) \o "-" \o ToString(last)
                            \o "/" \o ToString(input.size)),
     content_length |-> Some(last - first + 1),
     body |-> [i \in 1..(last - first + 1) |-> first + i - 1],
     error |-> None]

\* C24: on a file of size S > 0, bytes=a-b with a <= b and a < S is answered
\* with the window a..min(b, S-1), bytes=a- with a < S with a..S-1, and
\* bytes=-n with 0 < n < S with S-n..S-1.
C24_WindowSelected ==
    (Answered /\ input.size > 0)
        => \A a \in Fits :
              /\ \A b \in Fits :
                    (a <= b /\ a < input.size
                     /\ input.header = Some(BytesRange(Digits(a), Digits(b))))
                        => Response = Partial(a, IF b < input.size - 1 THEN b
                                                 ELSE input.size - 1)
              /\ (a < input.size /\ input.header = Some(BytesRange(Digits(a), <<>>)))
                    => Response = Partial(a, input.size - 1)
              /\ (0 < a /\ a < input.size
                  /\ input.header = Some(BytesRange(<<>>, Digits(a))))
                    => Response = Partial(input.size - a, input.size - 1)

\* bytes=900-5000 has been answered on a file of 1000 bytes with the window
\* 900..999.
C24_Witness ==
    /\ Answered
    /\ input.size = 1000
    /\ input.header = Some(BytesRange(Digits(900), Digits(5000)))
    /\ Response.content_range = Some("bytes 900-999/1000")
    /\ Len(Response.body) = 100

\* C25: a 206 response has a body that is not empty; with start its first
\* byte and end its last, 0 <= start <= end <= size - 1, and the response is
\* the one with Content-Range bytes start-end/size, Content-Length
\* end - start + 1 and the bytes start..end of the file as its body.
C25_PartialContentWellFormed ==
    (Answered /\ Response.status = 206)
        => /\ Response.body # <<>>
           /\ LET start == Response.body[1]
                  end == Response.body[Len(Response.body)]
              IN /\ 0 <= start /\ start <= end /\ end <= input.size - 1
                 /\ Response.content_length = Some(end - start + 1)
                 /\ end - start + 1 \in 1..input.size
                 /\ Response = Partial(start, end)

\* bytes=0-3 on a file of 10 bytes: bytes 0-3/10 and a body of 4 bytes.
C25_Witness ==
    /\ Answered
    /\ input.size = 10
    /\ input.header = Some(BytesRange(Digits(0), Digits(3)))
    /\ Response.status = 206
    /\ Response.content_range = Some("bytes 0-3/10")
    /\ Response.content_length = Some(4)
    /\ Response.body = <<0, 1, 2, 3>>

\* The 200 response with the whole file.
WholeFile ==
    [status |-> 200, content_range |-> None, content_length |-> None,
     body |-> [i \in 1..input.size |-> i - 1], error |-> None]

\* Range headers that are malformed: a unit other than bytes, no '-', a bound
\* that is not a number, an end below the start, a suffix of length 0, and
\* several ranges.
Malformed ==
    {Concat(<<"i", "t", "e", "m", "s">>, <<"=">>, a, <<"-">>, b) :
        a \in StartStrs, b \in EndStrs}
    \cup {Concat(<<"b", "y", "t", "e", "s">>, <<"=">>, a, <<>>, b) :
             a \in StartStrs, b \in EndStrs \ {<<"1", ",", "3", "-", "4">>}}
    \cup {BytesRange(<<"x">>, b) : b \in EndStrs}
    \cup {BytesRange(a, b) : a \in StartStrs, b \in {<<"x">>, <<"0xFF">>}}
    \cup {BytesRange(Digits(ab[1]), Digits(ab[2])) :
             ab \in {p \in Fits \X Fits : p[2] < p[1]}}
    \cup {BytesRange(<<>>, Digits(0))}
    \cup {BytesRange(a, <<"1", ",", "3", "-", "4">>) : a \in StartStrs}

\* C26: a request with a malformed Range header for a file that can be
\* opened is answered 200 with the whole file, as one without the header.
C26_MalformedRangeIgnored ==
    (Answered /\ input.header # None /\ input.header[1] \in Malformed)
        => Response = WholeFile

\* The header bytes=10-3 on a file of 1000 bytes has been answered with the
\* whole file.
C26_Witness ==
    /\ Answered
    /\ input.size = 1000
    /\ input.header = Some(BytesRange(Digits(10), Digits(3)))
    /\ Response.status = 200
    /\ Len(Response.body) = 1000

\* C27 as stated: for every file size, bytes=-n with n at or above the size
\* is answered with a successful response that carries the whole file.
C27_LongSuffixIsWholeFile ==
    \A n \in Fits :
        (Answered /\ n >= input.size /\ n > 0
         /\ input.header = Some(BytesRange(<<>>, Digits(n))))
            => /\ Response.status \in {200, 206}
               /\ Response.body = [i \in 1..input.size |-> i - 1]

\* The format of the request is the key of none of the record's sources.
NoSourceMatches ==
    \A i \in 1..Len(input.sources) :
        normalize_format_id(trim(input.sources[i].format_id)) # input.format

\* C28: no file is opened before the format has matched a source of the
\* record get_media returned; a request whose format matches none of the
\* sources ends with 404 "requested format not found" and no file opened.
C28_NoFileBeforeSourceMatch ==
    /\ output.opened # <<>>
          => /\ input.lookup = "found"
             /\ ~NoSourceMatches
             /\ output.pc \in {"opened", "done"}
    /\ (output.pc = "done" /\ input.lookup = "found" /\ NoSourceMatches
        /\ ensure_safe_path_segment(input.id) /\ ensure_safe_path_segment(input.format))
          => /\ output.response = Some(not_found("requested format not found"))
             /\ output.opened = <<>>

\* The format 4k was asked of a record that lists 18 and hls/7, and the
\* request has ended.
C28_Witness ==
    /\ output.pc = "done"
    /\ input.lookup = "found"
    /\ input.format = <<"4", "k">>
    /\ Len(input.sources) = 2
    /\ input.sources[1].format_id = <<"1", "8">>
    /\ input.sources[2].format_id = <<"h", "l", "s", "/", "7">>
    /\ input.file = "ok"
    /\ output.response[1].status = 404

\* C29: when the file cannot be opened or its metadata cannot be read, the
\* request ends with status 404 and the message "file not found" and nothing
\* else, whatever Range header it carried; stream_file never answers 500.
C29_OpenFailureIsNotFound ==
    /\ (output.pc = "done" /\ input.file \in {"open_fails", "metadata_fails"})
          => /\ output.response
                   = Some([status |-> 404, content_range |-> None,
                           content_length |-> None, body |-> <<>>,
                           error |-> Some("file not found")])
             /\ output.size = 0
    /\ output.response # None
          => /\ output.response[1].status \in {200, 206, 404, 416}
             /\ output.response[1].error \in {None, Some("file not found")}

\* The metadata of the file could not be read for a request with the header
\* bytes=0-3, and the request has ended.
C29_Witness ==
    /\ output.pc = "done"
    /\ input.file = "metadata_fails"
    /\ input.header = Some(BytesRange(Digits(0), Digits(3)))
    /\ output.response[1].status = 404

\* C30: in every response of the list, detail and bootstrap handlers, built
\* from the cache or from the store, every source of every record and every
\* subtitle track is without a path; the records, their sources and the
\* tracks are otherwise those of the store.
C30_NoPathsInResponses ==
    output.response # None
        => LET videos == output.response[1].videos
               tracks == output.response[1].tracks
           IN /\ \A i \in 1..Len(videos) :
                    /\ StoreGet(videos[i].videoid) # None
                    /\ Len(videos[i].sources) = Len(StoreGet(videos[i].videoid)[1].sources)
                    /\ \A k \in 1..Len(videos[i].sources) :
                          /\ videos[i].sources[k].path = None
                          /\ videos[i].sources[k].format_id
                                = StoreGet(videos[i].videoid)[1].sources[k].format_id
              /\ \A k \in 1..Len(tracks) :
                    tracks[k].path = None /\ tracks[k].code = input.tracks[k].code

\* The detail of record a was answered from the cache, where the record is
\* held with the path of its file.
C30_Witness ==
    /\ output.response # None
    /\ output.from = "cache"
    /\ Len(output.response[1].videos) = 1
    /\ output.details["a"] # None
    /\ \E k \in 1..Len(output.details["a"][1].sources) :
          output.details["a"][1].sources[k].path # None
    /\ output.bootstrap # None
    /\ \E k \in 1..Len(input.tracks) : input.tracks[k].path # None

\* A segment the route must refuse: empty, led by a separator, led by ".",
\* or with ".." as one of its pieces.
Unsafe(value) ==
    \/ value = <<>>
    \/ Head(value) = "/"
    \/ Head(split(value, "/")) = <<".">>
    \/ \E i \in 1..Len(split(value, "/")) : split(value, "/")[i] = <<".", ".">>

Opened == SelectSeq(output.log, LAMBDA e : e.op = "open")

\* The path lies in the directory: its pieces, "." dropped, begin with those
\* of the directory, and none of them is "..".
Inside(path, folder) ==
    LET p == SelectSeq(split(path, "/"), LAMBDA x : x # <<>> /\ x # <<".">>)
        d == SelectSeq(split(folder, "/"), LAMBDA x : x # <<>> /\ x # <<".">>)
    IN /\ Head(path) = "/"
       /\ Len(d) <= Len(p)
       /\ \A i \in 1..Len(d) : p[i] = d[i]
       /\ \A i \in 1..Len(p) : p[i] # <<".", ".">>

\* The track of the requested code, as the store holds it.
Track == SelectSeq(input.tracks, LAMBDA t : t.code = input.segment)

\* C40: a subtitle download opens at most one file, and only inside
\* <subtitles>/<id>: a track with a recorded path is served from that path
\* when the path lies there without a ".." piece, and otherwise the answer
\* for a track the store returned is 404 with no file opened and no
\* directory read; a track without a recorded
\* path is served from a file found by reading <subtitles>/<id> and no other
\* directory.
C40_SubtitleServedFromItsDirectory ==
    (output.pc = "done" /\ input.handler = "subtitle")
        => /\ Len(Opened) <= 1
           /\ \A i \in 1..Len(Opened) : Inside(Opened[i].path, SubtitlesDir \o <<"/">> \o input.id)
           /\ \A i \in 1..Len(output.log) :
                 output.log[i].op = "read_dir"
                    => /\ output.log[i].path = SubtitlesDir \o <<"/">> \o input.id
                       /\ Track # <<>> /\ Track[1].path = None
           /\ (Opened # <<>> /\ Track[1].path # None)
                 => /\ Opened[1].path = Track[1].path[1]
                    /\ Len(output.log) = 2
           /\ (Track # <<>> /\ Track[1].path # None
               /\ input.lookup = "found" /\ input.id = SegA
               /\ ~Inside(Track[1].path[1], SubtitlesDir \o <<"/">> \o input.id))
                 => /\ output.response[1].status = 404
                    /\ Opened = <<>>
           /\ (Opened # <<>> /\ Track[1].path = None)
                 => \E name \in input.listing[1] :
                       Opened[1].path = SubtitlesDir \o <<"/">> \o input.id \o <<"/">> \o name

\* The track en of the id a records /s/ab/x.vtt, a path next to the
\* directory /s/a, and the request for it has ended.
C40_Witness ==
    /\ output.pc = "done"
    /\ input.handler = "subtitle"
    /\ input.id = SegA
    /\ input.segment = SegEn
    /\ input.lookup = "found"
    /\ input.tracks[1].path = Some(<<"/", "s", "/", "a", "b", "/", "x", ".", "v", "t", "t">>)
    /\ input.file = "ok"
    /\ output.response[1].status = 404
    /\ output.log = <<Query(SegA)>>

\* C32: the recorded change-counter value is never replaced by a value that
\* was read from the store before the recorded one was read; the counter only
\* grows, so the recorded value never goes down.
C32_ObservedVersionNeverGoesBack ==
    [][(last_db_version # None /\ last_db_version' # None)
          => last_db_version'[1] >= last_db_version[1]]_vars

\* An answer that is the internal error.
IsError(x) == "failed" \in DOMAIN x /\ x.res = InternalError

\* The step in which the request of r1 ends with the internal error.
ErrorReturned ==
    /\ ret'["r1"] # None
    /\ IsError(ret'["r1"][1])
    /\ (rpc["r1"] # "idle" \/ nreq' # nreq)

\* C33: a request that ends with the internal error of a failed store call
\* leaves the snapshot and the recorded change-counter value as they were
\* when the call failed, and the request is over; a cached bootstrap payload
\* always has the four lists, each an answer the store gave.
C33_StoreFailurePopulatesNothing ==
    [][/\ ErrorReturned => /\ cache' = cache
                           /\ last_db_version' = last_db_version
                           /\ rpc'["r1"] = "idle"
       /\ cache'.bootstrap # None
             => \A f \in BootstrapFields :
                   \E a \in AnswersBetween(
                               [kind |-> "bootstrap", cat |-> "videos", id |-> "alpha"],
                               0, dbVersion) :
                      cache'.bootstrap[1][f] = a[f]]_vars

\* A bootstrap failed at its third query, after the videos and the shorts had
\* been fetched, and nothing of it is cached.
C33_Witness ==
    /\ ret["r1"] # None
    /\ IsError(ret["r1"][1])
    /\ ret["r1"][1].failed.kind = "bootstrap"
    /\ Len(ret["r1"][1].got) = 2
    /\ ret["r1"][1].got[1] # {}
    /\ cache.bootstrap = None
    /\ last_db_version # None

\* The worker of job n has not run: no task was spawned for it, or the task
\* has not made its first step.
WorkerNotRun(n) == task[n].pc \in {"none", "spawned"}

C35_ProgressNeverDecreases ==
    [][/\ \A n \in JobNumbers :
             /\ (FileOf(n) # None /\ FileOf(n)' # None)
                   => FileOf(n)'[1].progress >= FileOf(n)[1].progress
             /\ FileOf(n) # None => FileOf(n)' # None
             /\ (FileOf(n)' # FileOf(n) /\ dl[n].pc = "running")
                   => /\ dl'[n] # dl[n]
                      /\ task' = task
                      /\ call' = call
             /\ (FileOf(n)' # FileOf(n) /\ dl[n].pc # "running")
                   => /\ dl' = dl
                      /\ dl[n].pc \in {"none", "exited"}
       /\ (polled' # None /\ polled'[1].found)
             => polled'[1].progress
                   = (IF files[polled'[1].job.progress_file] = None THEN 0
                      ELSE files[polled'[1].job.progress_file][1].progress)]_vars

\* get_status reports the 75 the downloader of a video job wrote after 5 and
\* 20, the task waiting for it.
C35_Witness ==
    \E n \in Known :
        /\ PolledFound
        /\ polled[1].id = JobId(n)
        /\ polled[1].progress = 75
        /\ FileOf(n) = Some(ProgressReport(75, "Refreshing metadata"))
        /\ task[n].kind = "video"
        /\ task[n].pc = "wait"
        /\ dl[n].pc = "running"

\* C36: get_status answers for every job the table held when it looked the
\* id up; when the progress file of that job is missing, or holds something
\* that is no report, the answer carries the status and the message of the
\* record and progress 0.
C36_UnreadableFileStillAnswers ==
    /\ poll.pc = "read" => poll.job # None
    /\ polled # None
          => /\ polled[1].found <=> "job" \in DOMAIN polled[1]
             /\ ~polled[1].found => polled[1].id \notin DOMAIN jobs
             /\ polled[1].found
                   => /\ polled[1].id = polled[1].job.id
                      /\ polled[1].status = as_str(polled[1].job.status)
                      /\ (PolledFile = None \/ DOMAIN PolledFile[1] # {"progress", "message"})
                            => /\ polled[1].progress = 0
                               /\ polled[1].message = polled[1].job.message

\* The progress file of a running job holds a text that is no report, and
\* get_status answers running, 0 and the message of the record.
C36_Witness ==
    /\ PolledFound
    /\ PolledFile = Some([raw |-> "{"])
    /\ polled[1].status = "running"
    /\ polled[1].progress = 0
    /\ polled[1].message = "Running"

\* The events of the run so far that are of the given kind.
Events(op) == SelectSeq(output.log, LAMBDA e : e.op = op)

\* C37: a channel run whose lists were fetched processes every entry and
\* exits with 0, so that its job ends Success, whichever downloads, appends
\* and refreshes failed; a single-video run whose download failed has tried
\* the refresh after it and exits with a failure status, and a single-video
\* run exits with 0 only if no step of it failed; the job ends Failed exactly
\* when the exit status is not 0.
C37_EntryFailuresSkippedSingleFailureFatal ==
    /\ output.pc \in {"exited", "joined"}
          => /\ (input.target = "channel" /\ input.listing = "ok")
                   => /\ output.code = Some(0)
                      /\ output.completed = Len(input.ids)
             /\ input.target = "video"
                   => /\ (Events("download") # <<>> /\ ~Events("download")[1].ok)
                            => /\ output.code = Some(1)
                               /\ output.log[Len(output.log)].op = "refresh"
                      /\ output.code = Some(0)
                            => \A i \in 1..Len(output.log) : output.log[i].ok
    /\ output.pc = "joined"
          => (output.job = "Success" <=> output.code = Some(0))
    /\ output.pc # "joined" => output.job = "Running"

\* A channel run of two entries ended with its job Success although the
\* download of x and the refresh of y failed.
C37_Witness ==
    /\ output.pc = "joined"
    /\ input.target = "channel"
    /\ input.ids = <<"x", "y">>
    /\ input.archived = {}
    /\ input.download["x"] = "fails"
    /\ input.refresh["y"] = "fails"
    /\ output.job = "Success"
    /\ Len(Events("refresh")) = 2

\* C38: the download never runs for an id the archive holds, whether the
\* archive held it at the start or got it earlier in the run; every entry
\* that was processed without a failed append had its metadata refreshed,
\* archived or not; and an id is in the archive at the end only if it was
\* there at the start or its download succeeded in this run, the append
\* coming right after that download.
C38_ArchiveOnlyAfterSuccess ==
    /\ \A i \in 1..Len(output.log) :
          /\ output.log[i].op = "download"
                => /\ output.log[i].id \notin input.archived
                   /\ \A j \in 1..(i - 1) :
                         ~(output.log[j].op = "append" /\ output.log[j].ok
                           /\ output.log[j].id = output.log[i].id)
          /\ output.log[i].op = "append"
                => /\ i > 1
                   /\ output.log[i - 1] = [op |-> "download", id |-> output.log[i].id,
                                           ok |-> TRUE]
    /\ \A id \in output.archive \ input.archived :
          /\ input.download[id] = "ok"
          /\ \E i \in 1..Len(output.log) :
                output.log[i] = [op |-> "append", id |-> id, ok |-> TRUE]
    /\ input.archived \subseteq output.archive
    /\ (output.pc \in {"exited", "joined"} /\ input.listing = "ok")
          => \A k \in 1..Len(input.ids) :
                input.ids[k] \in input.archived
                   => \E i \in 1..Len(output.log) :
                         output.log[i].op = "refresh" /\ output.log[i].id = input.ids[k]

\* A channel run met x twice while the archive held y: x was downloaded once
\* and archived, and was refreshed at both entries.
C38_Witness ==
    /\ output.pc = "joined"
    /\ input.target = "channel"
    /\ input.ids = <<"x", "x">>
    /\ input.archived = {"y"}
    /\ output.archive = {"x", "y"}
    /\ Len(Events("download")) = 1
    /\ Len(Events("refresh")) = 2

\* C39: once no settings update is in flight and one of them has returned Ok,
\* the settings file parses to the settings held in memory.
C39_MemoryEqualsDiskAfterUpdates ==
    (/\ \A u \in Updaters : output.pc[u] = "idle"
     /\ \E u \in Updaters : output.result[u] = Some("ok"))
       => SettingsOnDisk = Some(output.current)

\* C39, the part on the order inside one update: the value in memory changes
\* only in the step after the rename of that update has succeeded, and to the
\* payload of that update.
C39_MemoryReplacedAfterWrite ==
    [][output'.current # output.current
          => \E u \in Updaters :
                /\ output.pc[u] = "store"
                /\ output'.current = output.settings[u][1]
                /\ output'.result[u] = Some("ok")]_vars

====
